---- MODULE Spec2Model ----
(***************************************************************************)
(* Model of the Sequencer of mpc-cli (src/src/sequencer/sequencer.cpp,     *)
(* sequencer.h) and of the threads of main() that drive it.                *)
(*                                                                         *)
(* Time is the reading of std::chrono::system_clock in units of one        *)
(* millisecond, and the clock is taken to be monotone.  Several calls may  *)
(* read the same clock value.  The code stores two clock readings,         *)
(* _sequenceRecordStartTime and _sequencePlayStartTime, and only ever      *)
(* uses "now minus the reading"; the model keeps these two differences,    *)
(* sinceRecordStart and sincePlayStart.  A reading is looked at only       *)
(* while its flag (_recording, _playing) is set, so its difference stands  *)
(* still while the flag is clear.                                          *)
(*                                                                         *)
(* src/unnamed/part_001 is the same Sequencer without the index that no    *)
(* method reads (_currentSequenceIndex).                                   *)
(*                                                                         *)
(* Two specifications share the state:                                     *)
(*   Spec      every public Sequencer method runs to completion as one     *)
(*             step (calls made one after the other);                      *)
(*   SpecConc  the input thread and the tick-driver thread of main()       *)
(*             interleave at the lock boundaries of the methods.           *)
(***************************************************************************)
EXTENDS Integers, Sequences, FiniteSets, TLC

\* ---------------------------------------------------------------- bounds
\* longest recording session and longest playback session, in milliseconds
MaxRecord == 3
MaxPlay == 8
\* most points recorded in one session
MaxPoints == 2
\* milliseconds followed per recording session and per playback when recordKey
\* has a thread of its own
MaxApiRecord == 1
MaxApiPlay == 2

\* ------------------------------------------------------------- constants
\* std::chrono::duration<double>(-0.001), in milliseconds
Sentinel == -1

\* the (key, pitch) pairs the key handler of main() passes on: "q" pressed in
\* normal mode, and "w" selected in pitch mode and played one octave up
Presses == {<<"q", 0>>, <<"w", 12>>}
Threads == {"input", "ticker", "recorder"}
NoPoint == [key |-> "q", time |-> 0, pitch |-> 0]

\* the trigger keys a sample can be configured for
Keys == {"q", "w"}

\* audio files by what std::filesystem::exists and createPipeline() make of
\* them: "kick.wav" exists and pre-rolls, "bad.wav" exists but the backend
\* cannot build a playable source from it, "gone.wav" does not exist
Files == {"kick.wav", "bad.wav", "gone.wav"}
NoFile == "none"

\* volumes in tenths, as samples.yaml gives them
Volumes == {8}

\* pitch shifts in semitones: an octave down, the original pitch, an octave up
Semitones == {-12, 0, 12}

\* threads that run code of the AudioProcessor: main() during startup, the
\* keyboard event loop, the sequencer thread, and the thread that dispatches
\* the bus watch of a pipeline
VoiceThreads == {"main", "input", "ticker", "backend"}
NoCall == [key |-> "q", semitones |-> 0]

\* '\0', the value of pitch_mode_key before a sample is selected; also the
\* key of a voice that has no forwarding callback
NoKey == "none"
\* an empty std::function, and the callbacks given to setAmplitudeCallback
NoCallback == "empty"
AmplitudeCallbacks == {"cb1", "cb2"}

\* an absent entry of pipelines_
NoVoice == [bound |-> FALSE, file |-> NoFile, volume |-> 0, pitch |-> 0,
            isPlaying |-> FALSE, pipeline |-> FALSE, state |-> "NULL",
            rate |-> 1000, pos |-> 0, bus |-> <<>>, watch |-> FALSE,
            ampKey |-> NoKey]

VARIABLES
  playing,                \* _playing
  recording,              \* _recording
  sinceRecordStart,       \* now - _sequenceRecordStartTime
  sincePlayStart,         \* now - _sequencePlayStartTime
  sequenceLength,
  previousPlayPosition,
  currentSequenceIndex,   \* the index no method ever reads
  currentIndex,           \* the cursor tick() reads and advances
  sequencePoints,
  sequencePointLock,      \* "free" or the thread that holds the mutex
  pc,                     \* position of each thread inside a method
  localPos,               \* tick(): currentPosition (0 outside the call)
  localPt,                \* recordKey(): pt (NoPoint outside the call)
  access,                 \* history: what the last step of a thread touched, and how
  op,                     \* history: the method that ran last
  args,                   \* history: the arguments of that call
  fired,                  \* history: callbacks invoked by the last method
  lastTick,               \* history: now - _sequencePlayStartTime at the previous tick, -1 if none
  maxGap,                 \* history: longest wait before a tick since playback started
  firstFires,             \* history: times point 0 fired since playback started
  firstFiresInLoop,       \* history: times point 0 fired in the loop iteration of lastTick
  replay,                 \* history: "restarted" if togglePlaying() began the session after stopping one that fired
  recorded,               \* history: the points recordKey appended since the last clear()
  sampleMap,              \* AudioProcessor::sample_map_
  pipelines,              \* AudioProcessor::pipelines_, the AudioPipeline of each key
  mutex,                  \* AudioProcessor::mutex_: "free" or the thread that holds it
  vpc,                    \* position of each thread inside main() and the AudioProcessor
  vcall,                  \* playSampleWithPitch(): the arguments of each thread's call
  result,                 \* history: what the last step returned, FALSE if it returned nothing
  blocked,                \* history: blocking operations of the last step, and the locks held
  config,                 \* main(): sample_map, the file configured for each key
  regIndex,               \* main(): position of the registration loop in sample_map
  registeredCount,        \* main(): registered_count
  audioPipeline,          \* one AudioPipeline object used through its own interface
  life,                   \* where that object is in its life, and inside which call
  pipelinesToStop,        \* ~AudioProcessor(): pipelines_to_stop
  amplitudeCallback,      \* AudioProcessor::amplitude_callback_
  forwarded,              \* history: the call of amplitude_callback_ made by the last step
  pitchModeActive,        \* main(): pitch_mode_active
  pitchModeKey,           \* main(): pitch_mode_key
  pitchOctaveOffset,      \* main(): pitch_octave_offset
  played,                 \* history: the trigger calls of the last key event or tick, each with what it returned
  taped,                  \* history: the recordKey calls the last key event made
  shiftHeld,              \* the keyboard: SHIFT is down
  wasShiftPressed,        \* eventTapCallbackC: static bool wasShiftPressed
  keyPressedWithShift,    \* eventTapCallbackC: static bool keyPressedWithShift
  keySinceShift           \* history: a mapped key went down since SHIFT last went down

seqVars == <<playing, recording, sinceRecordStart, sincePlayStart,
             sequenceLength, previousPlayPosition, currentSequenceIndex,
             currentIndex, sequencePoints>>
threadVars == <<sequencePointLock, pc, localPos, localPt, access>>
playHist == <<lastTick, maxGap, firstFires, firstFiresInLoop, replay>>
objVars == <<audioPipeline, life>>
ampVars == <<amplitudeCallback, forwarded>>
keyVars == <<pitchModeActive, pitchModeKey, pitchOctaveOffset, played, taped>>
tapVars == <<shiftHeld, wasShiftPressed, keyPressedWithShift, keySinceShift>>
extVars == <<objVars, pipelinesToStop, ampVars, keyVars, tapVars>>
voiceVars == <<sampleMap, pipelines, mutex, vpc, vcall, result, blocked,
               config, regIndex, registeredCount, extVars>>
sequencerVars == <<seqVars, threadVars, playHist, recorded>>
sequencerRest == <<seqVars, sequencePointLock, pc, localPos, localPt, playHist, recorded>>
vars == <<seqVars, threadVars, op, args, fired, playHist, recorded, voiceVars>>

\* ------------------------------------------------------- pure functions
\* the comparator of std::sort in toggleRecording
TimeLess(a, b) == a.time < b.time

IsSorted(s) ==
  \A i \in 1..Len(s) : \A j \in 1..Len(s) : i < j => ~TimeLess(s[j], s[i])

Reorderings(s) ==
  {[i \in 1..Len(s) |-> s[f[i]]] : f \in Permutations(1..Len(s))}

SortDescending(s) ==
  {p \in Reorderings(s) : \A i \in 1..Len(s) : \A j \in 1..Len(s) :
                             i < j => ~TimeLess(p[i], p[j])}

\* std::sort is not stable: every ordering the comparator accepts is a result
SortByTime(s) == {p \in Reorderings(s) : IsSorted(p)}

\* std::fmod for a non-negative numerator and a positive denominator
Fmod(x, y) == x % y

WrappedOrEqual(pos, prev) == pos <= prev

\* bool wrapped = currentPosition < _previousPlayPosition
Wrapped(pos, prev) == pos < prev

DueStrict(pt, pos) == pt.time < pos

\* pt._timeFromStart <= currentPosition
Due(pt, pos) == pt.time <= pos

ScanOne(points, idx, pos) ==
  IF idx < Len(points) /\ Due(points[idx + 1], pos) THEN idx + 1 ELSE idx

\* the while loop of tick(): the cursor after firing every consecutive due point
RECURSIVE ScanFrom(_, _, _)
ScanFrom(points, idx, pos) ==
  IF idx < Len(points) /\ Due(points[idx + 1], pos)
  THEN ScanFrom(points, idx + 1, pos)
  ELSE idx

\* the (key, pitch) pairs handed to _keyTriggerCallback, in call order
Callbacks(points, from, to) ==
  [i \in 1..(to - from) |-> <<points[from + i].key, points[from + i].pitch>>]

SkipsOnZeroLengthOnly == sequenceLength <= 0

\* if (sequenceLength <= 0.0 || _sequencePoints.empty()) return;
TickSkips == sequenceLength <= 0 \/ Len(sequencePoints) = 0

NotCleared(points) == points

\* _sequencePoints.clear()
Cleared(points) == <<>>

\* recordKey goes on past "if (!_recording) return"
Records == recording

PointKeepsNoPitch(key, pitch) ==
  [key |-> key, time |-> sinceRecordStart, pitch |-> 0]

\* SequencePoint pt = { key, timeSinceStart, pitch }
NewPoint(key, pitch) ==
  [key |-> key, time |-> sinceRecordStart, pitch |-> pitch]

\* ---------------------------------------------------------------- state
\* no AudioPipeline object of its own, no amplitude callback, normal mode
ExtInit ==
  /\ audioPipeline = NoVoice
  /\ life = "uninitialized"
  /\ pipelinesToStop = [k \in Keys |-> NoVoice]
  /\ amplitudeCallback = NoCallback
  /\ forwarded = <<>>
  /\ pitchModeActive = FALSE
  /\ pitchModeKey = NoKey
  /\ pitchOctaveOffset = 0
  /\ played = <<>>
  /\ taped = <<>>
  /\ shiftHeld = FALSE
  /\ wasShiftPressed = FALSE
  /\ keyPressedWithShift = FALSE
  /\ keySinceShift = FALSE

\* the Sequencer after its constructor
SequencerInit ==
  /\ playing = FALSE
  /\ recording = FALSE
  /\ sinceRecordStart = 0
  /\ sincePlayStart = 0
  /\ sequenceLength = 0
  /\ previousPlayPosition = 0
  /\ currentSequenceIndex = 0
  /\ currentIndex = 0
  /\ sequencePoints = <<>>
  /\ sequencePointLock = "free"
  /\ pc = [t \in Threads |-> "idle"]
  /\ localPos = 0
  /\ localPt = NoPoint
  /\ access = [fields |-> {}, locked |-> FALSE]
  /\ op = "init"
  /\ args = <<>>
  /\ fired = <<>>
  /\ lastTick = -1
  /\ maxGap = 0
  /\ firstFires = 0
  /\ firstFiresInLoop = 0
  /\ replay = "fresh"
  /\ recorded = <<>>

\* the maps of an AudioProcessor nothing was registered with
EmptyRegistry ==
  /\ sampleMap = [k \in Keys |-> NoFile]
  /\ pipelines = [k \in Keys |-> NoVoice]

\* mutex_ free, no thread inside the AudioProcessor, main() past its startup
CallsInit ==
  /\ mutex = "free"
  /\ vpc = [t \in VoiceThreads |-> "idle"]
  /\ vcall = [t \in VoiceThreads |-> NoCall]
  /\ result = FALSE
  /\ blocked = [ops |-> {}, locks |-> {}]
  /\ config = [k \in Keys |-> NoFile]
  /\ regIndex = 1
  /\ registeredCount = 0

Init ==
  /\ ExtInit
  /\ SequencerInit
  /\ EmptyRegistry
  /\ CallsInit

\* what a togglePlaying() call adds to the history: it stops a session that
\* has fired a point, or it starts one right after such a stop
Toggled ==
  IF playing
  THEN IF firstFires >= 1 THEN "stopped" ELSE "fresh"
  ELSE IF replay = "stopped" THEN "restarted" ELSE "fresh"

ResetPlayHist ==
  /\ lastTick' = -1
  /\ maxGap' = 0
  /\ firstFires' = 0
  /\ firstFiresInLoop' = 0

togglePlayingKeepsCursor ==
  IF playing
  THEN /\ currentSequenceIndex' = 0
       /\ previousPlayPosition' = Sentinel
       /\ playing' = FALSE
       /\ UNCHANGED <<sincePlayStart, currentIndex>>
  ELSE /\ sincePlayStart' = 0
       /\ currentSequenceIndex' = 0
       /\ previousPlayPosition' = Sentinel
       /\ playing' = TRUE
       /\ UNCHANGED currentIndex

togglePlayingKeepsStart ==
  IF playing
  THEN /\ currentSequenceIndex' = 0
       /\ previousPlayPosition' = Sentinel
       /\ playing' = FALSE
       /\ UNCHANGED <<sincePlayStart, currentIndex>>
  ELSE /\ currentSequenceIndex' = 0
       /\ currentIndex' = 0
       /\ previousPlayPosition' = Sentinel
       /\ playing' = TRUE
       /\ UNCHANGED sincePlayStart

\* the body of Sequencer::togglePlaying
togglePlaying ==
  IF playing
  THEN /\ currentSequenceIndex' = 0
       /\ previousPlayPosition' = Sentinel
       /\ playing' = FALSE
       /\ UNCHANGED <<sincePlayStart, currentIndex>>
  ELSE /\ sincePlayStart' = 0
       /\ currentSequenceIndex' = 0
       /\ currentIndex' = 0
       /\ previousPlayPosition' = Sentinel
       /\ playing' = TRUE

\* one millisecond passes; with both flags clear no reading is looked at and
\* nothing changes
Passes(maxRecord, maxPlay) ==
  /\ recording \/ playing
  /\ recording => sinceRecordStart < maxRecord
  /\ playing => sincePlayStart < maxPlay
  /\ sinceRecordStart' = IF recording THEN sinceRecordStart + 1 ELSE sinceRecordStart
  /\ sincePlayStart' = IF playing THEN sincePlayStart + 1 ELSE sincePlayStart
  /\ op' = "advance"
  /\ args' = <<>>
  /\ fired' = <<>>
  /\ UNCHANGED <<playing, recording, sequenceLength, previousPlayPosition,
                 currentSequenceIndex, currentIndex, sequencePoints,
                 threadVars, playHist, recorded, voiceVars>>

Advance == Passes(MaxRecord, MaxPlay)

Max(a, b) == IF a >= b THEN a ELSE b

\* the loop iteration that an elapsed playback time falls in
LoopOf(elapsed) == elapsed \div sequenceLength

ScanFromTheTop(pos) == 0

\* where the scan of tick() starts: 0 after a wrap, else the cursor
ScanStart(pos) == IF Wrapped(pos, previousPlayPosition) THEN 0 ELSE currentIndex

\* lines 104-131 of tick(), run with the lock held, for the position computed before
TickBody(pos) ==
  LET start == ScanStart(pos)
      end == ScanFrom(sequencePoints, start, pos)
  IN /\ currentIndex' = end
     /\ previousPlayPosition' = pos
     /\ fired' = Callbacks(sequencePoints, start, end)

\* what a tick() that ran its body adds to the history of the playback session
TickHist(pos) ==
  LET start == ScanStart(pos)
      end == ScanFrom(sequencePoints, start, pos)
      hitFirst == IF start = 0 /\ end >= 1 THEN 1 ELSE 0
      since == IF lastTick = -1 THEN 0 ELSE lastTick
      newLoop == lastTick = -1 \/ LoopOf(sincePlayStart) # LoopOf(lastTick)
  IN /\ lastTick' = sincePlayStart
     /\ maxGap' = Max(maxGap, sincePlayStart - since)
     /\ firstFires' = firstFires + hitFirst
     /\ firstFiresInLoop' = (IF newLoop THEN 0 ELSE firstFiresInLoop) + hitFirst
     /\ UNCHANGED replay

\* Sequencer::tick: what it does to the Sequencer, and the callbacks it invokes
TickCalls ==
  /\ op' = "tick"
  /\ args' = <<>>
  /\ IF ~playing \/ TickSkips
     THEN /\ fired' = <<>>
          /\ UNCHANGED <<currentIndex, previousPlayPosition, playHist>>
     ELSE /\ TickBody(Fmod(sincePlayStart, sequenceLength))
          /\ TickHist(Fmod(sincePlayStart, sequenceLength))
  /\ UNCHANGED <<playing, recording, sinceRecordStart,
                 sincePlayStart, sequenceLength, currentSequenceIndex,
                 sequencePoints, threadVars, recorded>>

\* Sequencer::tick, the callbacks only noted
Tick ==
  /\ TickCalls
  /\ UNCHANGED voiceVars

\* the body of Sequencer::recordKey
recordKey(key, pitch) ==
  /\ sequencePoints' = IF Records
                       THEN Append(sequencePoints, NewPoint(key, pitch))
                       ELSE sequencePoints
  /\ recorded' = IF Records
                 THEN Append(recorded, NewPoint(key, pitch))
                 ELSE recorded
  /\ UNCHANGED <<playing, recording, sinceRecordStart,
                 sincePlayStart, sequenceLength, previousPlayPosition,
                 currentSequenceIndex, currentIndex>>

\* Sequencer::recordKey
RecordKey(key, pitch) ==
  /\ recording => Len(sequencePoints) < MaxPoints
  /\ op' = "recordKey"
  /\ args' = <<key, pitch>>
  /\ fired' = <<>>
  /\ recordKey(key, pitch)
  /\ UNCHANGED <<threadVars, playHist, voiceVars>>

\* the body of Sequencer::toggleRecording
toggleRecording ==
  IF recording
  THEN /\ sequenceLength' = sinceRecordStart
       /\ recording' = FALSE
       /\ sequencePoints' \in SortByTime(sequencePoints)
       /\ togglePlaying
       /\ UNCHANGED <<sinceRecordStart, recorded>>
  ELSE /\ sinceRecordStart' = 0
       /\ sequenceLength' = 0
       /\ sequencePoints' = Cleared(sequencePoints)
       /\ recorded' = <<>>
       /\ recording' = TRUE
       /\ UNCHANGED <<playing, sincePlayStart, previousPlayPosition,
                      currentSequenceIndex, currentIndex>>

\* Sequencer::toggleRecording
ToggleRecording ==
  /\ op' = IF recording THEN "stopRecording" ELSE "startRecording"
  /\ args' = <<>>
  /\ fired' = <<>>
  /\ ResetPlayHist
  /\ replay' = "fresh"
  /\ toggleRecording
  /\ UNCHANGED <<threadVars, voiceVars>>

\* Sequencer::togglePlaying, called by the key handler
TogglePlaying ==
  /\ op' = "togglePlaying"
  /\ args' = <<>>
  /\ fired' = <<>>
  /\ ResetPlayHist
  /\ replay' = Toggled
  /\ togglePlaying
  /\ UNCHANGED <<recording, sinceRecordStart, sequenceLength,
                 sequencePoints, threadVars, recorded, voiceVars>>

Next ==
  \/ Advance
  \/ ToggleRecording
  \/ \E press \in Presses : RecordKey(press[1], press[2])
  \/ TogglePlaying
  \/ Tick

Spec == Init /\ [][Next]_vars

\* ====================================================================
\* The threads of main(): the keyboard event loop ("input") runs the key
\* handler, which calls toggleRecording, togglePlaying and recordKey; the
\* sequencer thread ("ticker") calls tick() in a loop.  A method is cut
\* where it takes _sequencePointLock; the lock_guard releases the mutex at
\* the end of the step that runs the locked part.  The statements between
\* two lock operations are taken as one step.
\* ====================================================================
Guarded == {"sequencePoints", "currentIndex", "previousPlayPosition"}

Goto(self, label) == pc' = [pc EXCEPT ![self] = label]

Touch(fields, locked) == access' = [fields |-> fields, locked |-> locked]

\* a step inside a method: no call has returned, no callback was invoked
Midway ==
  /\ op' = "midway"
  /\ args' = <<>>
  /\ fired' = <<>>

Acquire(self, from, to) ==
  /\ pc[self] = from
  /\ sequencePointLock = "free"
  /\ sequencePointLock' = self
  /\ Goto(self, to)
  /\ Touch({}, FALSE)
  /\ Midway
  /\ UNCHANGED <<seqVars, localPos, localPt, playHist, recorded, voiceVars>>

\* toggleRecording, lines 18-23 and 37-38: before the lock is taken
TR_Enter ==
  /\ pc["input"] = "idle"
  /\ IF recording
     THEN /\ sequenceLength' = sinceRecordStart
          /\ recording' = FALSE
          /\ Goto("input", "tr_stop_lock")
          /\ UNCHANGED sinceRecordStart
     ELSE /\ sinceRecordStart' = 0
          /\ sequenceLength' = 0
          /\ Goto("input", "tr_start_lock")
          /\ UNCHANGED recording
  /\ Touch({}, FALSE)
  /\ Midway
  /\ UNCHANGED <<playing, sincePlayStart, previousPlayPosition, currentSequenceIndex,
                 currentIndex, sequencePoints, sequencePointLock, localPos, localPt,
                 playHist, recorded, voiceVars>>

\* toggleRecording, line 25
TR_StopLock == Acquire("input", "tr_stop_lock", "tr_stop")

\* toggleRecording, lines 28-34: sort, then togglePlaying() with the lock held
TR_Stop ==
  /\ pc["input"] = "tr_stop"
  /\ sequencePoints' \in SortByTime(sequencePoints)
  /\ togglePlaying
  /\ sequencePointLock' = "free"
  /\ Goto("input", "idle")
  /\ Touch(Guarded, sequencePointLock = "input")
  /\ op' = "stopRecording"
  /\ args' = <<>>
  /\ fired' = <<>>
  /\ UNCHANGED <<recording, sinceRecordStart, sequenceLength, localPos, localPt, playHist,
                 recorded, voiceVars>>

\* toggleRecording, line 40
TR_StartLock == Acquire("input", "tr_start_lock", "tr_start")

\* toggleRecording, lines 41-43
TR_Start ==
  /\ pc["input"] = "tr_start"
  /\ sequencePoints' = Cleared(sequencePoints)
  /\ recording' = TRUE
  /\ sequencePointLock' = "free"
  /\ Goto("input", "idle")
  /\ Touch({"sequencePoints"}, sequencePointLock = "input")
  /\ op' = "startRecording"
  /\ args' = <<>>
  /\ fired' = <<>>
  /\ recorded' = <<>>
  /\ UNCHANGED <<playing, sinceRecordStart, sincePlayStart, sequenceLength,
                 previousPlayPosition, currentSequenceIndex, currentIndex,
                 localPos, localPt, playHist, voiceVars>>

\* recordKey, lines 48-55, run by a thread: the early return, or the point
\* built before the lock
RecordEnter(self, key, pitch) ==
  /\ pc[self] = "idle"
  /\ Records => Len(sequencePoints) < MaxPoints
  /\ IF Records
     THEN /\ localPt' = NewPoint(key, pitch)
          /\ Goto(self, "rk_lock")
          /\ Midway
     ELSE /\ op' = "recordKey"
          /\ args' = <<key, pitch>>
          /\ fired' = <<>>
          /\ UNCHANGED <<localPt, pc>>
  /\ Touch({}, FALSE)
  /\ UNCHANGED <<seqVars, sequencePointLock, localPos, playHist, recorded, voiceVars>>

\* recordKey, line 58, run by a thread
RecordPush(self) ==
  /\ pc[self] = "rk_push"
  /\ sequencePoints' = Append(sequencePoints, localPt)
  /\ sequencePointLock' = "free"
  /\ Goto(self, "idle")
  /\ Touch({"sequencePoints"}, sequencePointLock = self)
  /\ localPt' = NoPoint
  /\ op' = "recordKey"
  /\ args' = <<localPt.key, localPt.pitch>>
  /\ fired' = <<>>
  /\ recorded' = Append(recorded, localPt)
  /\ UNCHANGED <<playing, recording, sinceRecordStart, sincePlayStart, sequenceLength,
                 previousPlayPosition, currentSequenceIndex, currentIndex,
                 localPos, playHist, voiceVars>>

\* recordKey called by the key handler, lines 48-55
RK_Enter(key, pitch) == RecordEnter("input", key, pitch)

\* recordKey, line 57
RK_Lock == Acquire("input", "rk_lock", "rk_push")

\* recordKey, line 58
RK_Push == RecordPush("input")

\* togglePlaying called by the key handler ('2'), lines 61-79: no lock is taken
TP_Call ==
  /\ pc["input"] = "idle"
  /\ togglePlaying
  /\ Touch({"currentIndex", "previousPlayPosition"} \ (IF playing THEN {"currentIndex"} ELSE {}),
           sequencePointLock = "input")
  /\ op' = "togglePlaying"
  /\ args' = <<>>
  /\ fired' = <<>>
  /\ UNCHANGED <<recording, sinceRecordStart, sequenceLength, sequencePoints,
                 sequencePointLock, pc, localPos, localPt, playHist, recorded,
                 voiceVars>>

\* tick, lines 82-100: the early returns and the position, before the lock is
\* taken; _sequencePoints.empty() is evaluated only when sequenceLength > 0
TK_Enter ==
  /\ pc["ticker"] = "idle"
  /\ IF ~playing \/ TickSkips
     THEN /\ op' = "tick"
          /\ args' = <<>>
          /\ fired' = <<>>
          /\ UNCHANGED <<pc, localPos>>
     ELSE /\ localPos' = Fmod(sincePlayStart, sequenceLength)
          /\ Goto("ticker", "tk_lock")
          /\ Midway
  /\ Touch(IF playing /\ sequenceLength > 0 THEN {"sequencePoints"} ELSE {},
           sequencePointLock = "ticker")
  /\ UNCHANGED <<seqVars, sequencePointLock, localPt, playHist, recorded, voiceVars>>

\* tick, line 102
TK_Lock == Acquire("ticker", "tk_lock", "tk_body")

\* tick, lines 104-131
TK_Body ==
  /\ pc["ticker"] = "tk_body"
  /\ TickBody(localPos)
  /\ sequencePointLock' = "free"
  /\ Goto("ticker", "idle")
  /\ Touch(Guarded, sequencePointLock = "ticker")
  /\ localPos' = 0
  /\ op' = "tick"
  /\ args' = <<>>
  /\ UNCHANGED <<playing, recording, sinceRecordStart, sincePlayStart, sequenceLength,
                 currentSequenceIndex, sequencePoints, localPt, playHist, recorded,
                 voiceVars>>

ConcNext ==
  \/ Advance
  \/ TR_Enter
  \/ TR_StopLock
  \/ TR_Stop
  \/ TR_StartLock
  \/ TR_Start
  \/ \E press \in Presses : RK_Enter(press[1], press[2])
  \/ RK_Lock
  \/ RK_Push
  \/ TP_Call
  \/ TK_Enter
  \/ TK_Lock
  \/ TK_Body

SpecConc == Init /\ [][ConcNext]_vars

\* ====================================================================
\* The Sequencer called as its interface allows: recordKey from a thread
\* ("recorder") other than the one that calls toggleRecording and
\* togglePlaying ("input"), and tick() from the sequencer thread.
\* ====================================================================

\* recordKey called by the recording thread
R_Enter(key, pitch) == RecordEnter("recorder", key, pitch)

R_Lock == Acquire("recorder", "rk_lock", "rk_push")

R_Push == RecordPush("recorder")

\* one millisecond passes, within the sessions this specification follows
ApiAdvance == Passes(MaxApiRecord, MaxApiPlay)

ApiNext ==
  \/ ApiAdvance
  \/ TR_Enter
  \/ TR_StopLock
  \/ TR_Stop
  \/ TR_StartLock
  \/ TR_Start
  \/ \E press \in Presses : R_Enter(press[1], press[2])
  \/ R_Lock
  \/ R_Push
  \/ TP_Call
  \/ TK_Enter
  \/ TK_Lock
  \/ TK_Body

SpecApi == Init /\ [][ApiNext]_vars

\* ====================================================================
\* The AudioProcessor (the registry of voices) and its AudioPipelines.
\*
\* A voice is the AudioPipeline of one key together with the state of its
\* GStreamer pipeline: the state last set (PAUSED or PLAYING), the rate and
\* the position of the last seek, and the messages waiting on its bus.  The
\* position counts the stretches of the stream that have been played.  The
\* calls into GStreamer are taken to succeed on a created pipeline.
\* ====================================================================

\* bounds: the length of a sample in stretches, and the messages a bus holds
StreamLen == 2
MaxBus == 1

\* std::filesystem::exists(file_path)
FileExists(file) == file \in {"kick.wav", "bad.wav"}

\* createPipeline(): the pipeline parses and reaches PAUSED
Prerolls(file) == file = "kick.wav"

\* the constructor of AudioPipeline returns without throwing
Prepares(file) == FileExists(file) /\ Prerolls(file)

\* the AudioPipeline a successful constructor leaves: pre-rolled, paused
NewVoice(file, volume) ==
  [bound |-> TRUE, file |-> file, volume |-> volume, pitch |-> 0,
   isPlaying |-> FALSE, pipeline |-> TRUE, state |-> "PAUSED",
   rate |-> 1000, pos |-> 0, bus |-> <<>>, watch |-> TRUE, ampKey |-> NoKey]

\* 2^(n/12) in thousandths for the twelve semitones n = 0..11 of an octave
SemitoneRatio == <<1000, 1059, 1122, 1189, 1260, 1335,
                   1414, 1498, 1587, 1682, 1782, 1888>>

\* std::pow(2.0, pitch_semitones_ / 12.0) in thousandths: the ratio of the
\* semitone within its octave, doubled or halved once per octave
RateOf(semitones) ==
  LET octave == semitones \div 12
      within == SemitoneRatio[(semitones % 12) + 1]
  IN IF octave >= 0
     THEN within * 2^octave
     ELSE within \div 2^(0 - octave)

\* AudioPipeline::setPitch
setPitch(voice, semitones) == [voice EXCEPT !.pitch = semitones]

\* gst_element_seek(pipeline_, rate, ..., FLUSH, SET 0, ...)
Seek(voice, rate) == [voice EXCEPT !.rate = rate, !.pos = 0]

\* AudioPipeline::start, from the is_playing_ test on
Play(voice) ==
  IF voice.isPlaying
  THEN voice
  ELSE [voice EXCEPT !.state = "PLAYING", !.isPlaying = TRUE]

startWithoutSeek(voice) ==
  IF ~voice.pipeline THEN voice ELSE Play(voice)

\* AudioPipeline::start: the voice it leaves
start(voice) ==
  IF ~voice.pipeline
  THEN voice
  ELSE Play(Seek(voice, RateOf(voice.pitch)))

startResultTrue(voice) == TRUE

\* AudioPipeline::start: the value it returns
startResult(voice) == voice.pipeline

FindFirst(key) ==
  IF \E k \in Keys : pipelines[k].bound
  THEN CHOOSE k \in Keys : pipelines[k].bound
  ELSE "end"

\* pipelines_.find(key): the key of the entry found, or "end"
Find(key) ==
  IF key \in DOMAIN pipelines /\ pipelines[key].bound THEN key ELSE "end"

NoBlocking == [ops |-> {}, locks |-> {}]

\* what registerSample does with mutex_ held: std::filesystem::exists and
\* std::cout, and the wait of gst_element_get_state for the pre-roll
RegisterBlocking(file) ==
  [ops |-> {"io"} \cup (IF FileExists(file) THEN {"backend wait"} ELSE {}),
   locks |-> {"mutex_"}]

\* AudioProcessor::registerSample: the maps it leaves.  make_unique runs before
\* pipelines_[key] is evaluated, so a throwing constructor leaves pipelines_ as
\* it was.
Registered(key, file, volume) ==
  /\ sampleMap' = [sampleMap EXCEPT ![key] = file]
  /\ pipelines' = IF Prepares(file)
                  THEN [pipelines EXCEPT ![key] =
                          IF amplitudeCallback # NoCallback
                          THEN [NewVoice(file, volume) EXCEPT !.ampKey = key]
                          ELSE NewVoice(file, volume)]
                  ELSE pipelines

\* AudioProcessor::registerSample
RegisterSample(key, file, volume) ==
  /\ Registered(key, file, volume)
  /\ blocked' = RegisterBlocking(file)
  /\ op' = "register"
  /\ args' = <<key, file, volume>>
  /\ fired' = <<>>
  /\ result' = FALSE
  /\ UNCHANGED <<mutex, vpc, vcall, config, regIndex, registeredCount, sequencerVars, extVars>>

\* what a trigger does with mutex_ held: std::cout when no entry is found
TriggerBlocking(key) ==
  IF Find(key) = "end" THEN [ops |-> {"io"}, locks |-> {"mutex_"}] ELSE NoBlocking

\* AudioProcessor::playSampleWithPitch: pipelines_ as the call leaves it and
\* the value it returns
playSampleWithPitch(key, semitones) ==
  LET it == Find(key)
  IN IF it = "end"
     THEN [pipelines |-> pipelines, result |-> FALSE]
     ELSE [pipelines |-> [pipelines EXCEPT ![it] = start(setPitch(@, semitones))],
           result |-> startResult(setPitch(pipelines[it], semitones))]

playSampleKeepsPitch(key) ==
  LET it == Find(key)
  IN IF it = "end"
     THEN [pipelines |-> pipelines, result |-> FALSE]
     ELSE [pipelines |-> [pipelines EXCEPT ![it] = start(@)],
           result |-> startResult(pipelines[it])]

\* AudioProcessor::playSample: pipelines_ as the call leaves it and the value
\* it returns
playSample(key) ==
  LET it == Find(key)
  IN IF it = "end"
     THEN [pipelines |-> pipelines, result |-> FALSE]
     ELSE LET reset == setPitch(pipelines[it], 0)
          IN [pipelines |-> [pipelines EXCEPT ![it] = start(reset)],
              result |-> IF startResult(reset) THEN TRUE ELSE FALSE]

\* AudioProcessor::playSample
PlaySample(key) ==
  /\ op' = "playSample"
  /\ args' = <<key>>
  /\ fired' = <<>>
  /\ pipelines' = playSample(key).pipelines
  /\ result' = playSample(key).result
  /\ blocked' = TriggerBlocking(key)
  /\ UNCHANGED <<sampleMap, mutex, vpc, vcall, config, regIndex, registeredCount, sequencerVars, extVars>>

\* AudioProcessor::playSampleWithPitch
PlaySampleWithPitch(key, semitones) ==
  /\ op' = "trigger"
  /\ args' = <<key, semitones>>
  /\ fired' = <<>>
  /\ pipelines' = playSampleWithPitch(key, semitones).pipelines
  /\ result' = playSampleWithPitch(key, semitones).result
  /\ blocked' = TriggerBlocking(key)
  /\ UNCHANGED <<sampleMap, mutex, vpc, vcall, config, regIndex, registeredCount, sequencerVars, extVars>>

\* the pipeline of a voice can play one more stretch of its stream
CanAdvance(voice) ==
  /\ voice.bound
  /\ voice.state = "PLAYING"
  /\ voice.pos < StreamLen
  /\ voice.pos + 1 = StreamLen => Len(voice.bus) < MaxBus

\* the pipeline has played one more stretch; at the end of the stream it posts EOS
Advanced(voice) ==
  [voice EXCEPT !.pos = voice.pos + 1,
                !.bus = IF voice.pos + 1 = StreamLen
                        THEN Append(voice.bus, "EOS")
                        ELSE voice.bus]

\* the pipeline of a voice can post an ERROR
CanFail(voice) ==
  /\ voice.bound
  /\ voice.state = "PLAYING"
  /\ Len(voice.bus) < MaxBus

\* the pipeline has posted an ERROR
Errored(voice) == [voice EXCEPT !.bus = Append(voice.bus, "ERROR")]

\* the pipeline of a key plays on
BackendPlays(key) ==
  /\ CanAdvance(pipelines[key])
  /\ pipelines' = [pipelines EXCEPT ![key] = Advanced(@)]
  /\ op' = "backend"
  /\ args' = <<key>>
  /\ fired' = <<>>
  /\ blocked' = NoBlocking
  /\ result' = FALSE
  /\ UNCHANGED <<sampleMap, mutex, vpc, vcall, config, regIndex, registeredCount,
                 sequencerVars, extVars>>

\* the pipeline of a key posts an ERROR while it plays
BackendFails(key) ==
  /\ CanFail(pipelines[key])
  /\ pipelines' = [pipelines EXCEPT ![key] = Errored(@)]
  /\ op' = "backend"
  /\ args' = <<key>>
  /\ fired' = <<>>
  /\ blocked' = NoBlocking
  /\ result' = FALSE
  /\ UNCHANGED <<sampleMap, mutex, vpc, vcall, config, regIndex, registeredCount,
                 sequencerVars, extVars>>

NotRewound(voice) == voice

\* busCallback, GST_MESSAGE_EOS: gst_element_seek_simple to 0 (rate 1.0) and
\* gst_element_set_state(PAUSED)
Rewound(voice) == [voice EXCEPT !.rate = 1000, !.pos = 0, !.state = "PAUSED"]

\* the bus watch of a voice has a message to hand to busCallback
CanDeliver(voice) ==
  /\ voice.bound
  /\ voice.watch
  /\ voice.bus # <<>>

\* busCallback has handled the first message on the bus of a voice
Delivered(voice) ==
  LET taken == [voice EXCEPT !.bus = Tail(voice.bus), !.isPlaying = FALSE]
  IN IF Head(voice.bus) = "EOS" THEN Rewound(taken) ELSE taken

\* AudioPipeline::busCallback for the first message on the bus of a key
BusCallback(key) ==
  /\ CanDeliver(pipelines[key])
  /\ pipelines' = [pipelines EXCEPT ![key] = Delivered(@)]
  /\ op' = "busCallback"
  /\ args' = <<key, Head(pipelines[key].bus)>>
  /\ fired' = <<>>
  /\ blocked' = NoBlocking
  /\ result' = FALSE
  /\ UNCHANGED <<sampleMap, mutex, vpc, vcall, config, regIndex, registeredCount,
                 sequencerVars, extVars>>

VoiceNext ==
  \/ \E key \in Keys, file \in Files, volume \in Volumes : RegisterSample(key, file, volume)
  \/ \E key \in Keys, semitones \in Semitones : PlaySampleWithPitch(key, semitones)
  \/ \E key \in Keys : PlaySample(key)
  \/ \E key \in Keys : BackendPlays(key)
  \/ \E key \in Keys : BackendFails(key)
  \/ \E key \in Keys : BusCallback(key)

\* the AudioProcessor, calls and callbacks made one after the other
SpecVoice == Init /\ [][VoiceNext]_vars

\* ====================================================================
\* One AudioPipeline used through its own interface by one thread: it is
\* constructed, started, re-pitched, stopped and destructed, and the messages
\* of its bus are handed to busCallback between the calls.  stop() is cut at
\* its wait for the state change.
\* ====================================================================

\* volumes given to the constructor and to setVolume, in tenths: -0.5, 0.8, 1.5
Levels == {-5, 8, 15}

\* what gst_element_get_state(pipeline_, ..., GST_SECOND) returns in stop();
\* ASYNC is the change still pending when the second is over
StateChangeAnswers == {"SUCCESS", "FAILURE", "ASYNC"}

registryVars == <<sampleMap, pipelines, mutex, vpc, vcall, config, regIndex, registeredCount>>
objRest == <<registryVars, sequencerVars, pipelinesToStop, ampVars, keyVars, tapVars>>

\* AudioPipeline::setVolume
setVolume(voice, volume) == [voice EXCEPT !.volume = volume]

\* stop(), lines 181-202: the flag cleared, the bus watch removed, the
\* pipeline told to go to NULL
stopBegun(voice) ==
  [voice EXCEPT !.isPlaying = FALSE, !.watch = FALSE, !.state = "NULL"]

stopKeepsUnanswered(voice, answer) ==
  IF answer = "SUCCESS"
  THEN [voice EXCEPT !.pipeline = FALSE, !.bus = <<>>]
  ELSE voice

\* stop(), lines 204-213: whatever the answer, the pipeline is unreferenced
\* (its bus goes with it) and pipeline_ is null
stopEnded(voice, answer) ==
  [voice EXCEPT !.pipeline = FALSE, !.bus = <<>>]

\* a call of the interface that returns at once
Returns(name, arguments, value) ==
  /\ op' = name
  /\ args' = arguments
  /\ fired' = <<>>
  /\ result' = value
  /\ blocked' = NoBlocking

\* AudioPipeline::AudioPipeline: the constructor throws when the file is
\* missing or the pipeline cannot be created, and no object is left
P_Construct(file, volume) ==
  /\ life = "uninitialized"
  /\ IF Prepares(file)
     THEN /\ audioPipeline' = NewVoice(file, volume)
          /\ life' = "live"
     ELSE /\ life' = "failed"
          /\ UNCHANGED audioPipeline
  /\ Returns("construct", <<file, volume>>, Prepares(file))
  /\ UNCHANGED objRest

\* AudioPipeline::start
P_Start ==
  /\ life = "live"
  /\ audioPipeline' = start(audioPipeline)
  /\ Returns("start", <<>>, startResult(audioPipeline))
  /\ UNCHANGED <<life, objRest>>

\* AudioPipeline::setPitch
P_SetPitch(semitones) ==
  /\ life = "live"
  /\ audioPipeline' = setPitch(audioPipeline, semitones)
  /\ Returns("setPitch", <<semitones>>, FALSE)
  /\ UNCHANGED <<life, objRest>>

\* AudioPipeline::setVolume
P_SetVolume(volume) ==
  /\ life = "live"
  /\ audioPipeline' = setVolume(audioPipeline, volume)
  /\ Returns("setVolume", <<volume>>, FALSE)
  /\ UNCHANGED <<life, objRest>>

\* stop() is entered, by a call of stop ("stopping") or by the destructor
\* ("destructing"): it returns at once when pipeline_ is null, else it goes up
\* to its wait
StopEntered(name, inside, after) ==
  /\ life = "live"
  /\ IF ~audioPipeline.pipeline
     THEN /\ life' = after
          /\ Returns(name, <<>>, FALSE)
          /\ UNCHANGED audioPipeline
     ELSE /\ audioPipeline' = stopBegun(audioPipeline)
          /\ life' = inside
          /\ Returns("midway", <<>>, FALSE)
  /\ UNCHANGED objRest

\* AudioPipeline::stop, lines 176-202
P_Stop == StopEntered("stop", "stopping", "live")

\* AudioPipeline::~AudioPipeline, which calls stop()
P_Destruct == StopEntered("destruct", "destructing", "destructed")

\* stop(), lines 204-213: the wait is over with one of the answers
P_StopEnd(answer) ==
  /\ life \in {"stopping", "destructing"}
  /\ audioPipeline' = stopEnded(audioPipeline, answer)
  /\ life' = IF life = "stopping" THEN "live" ELSE "destructed"
  /\ Returns(IF life = "stopping" THEN "stop" ELSE "destruct", <<answer>>, FALSE)
  /\ UNCHANGED objRest

\* the pipeline of the object plays on
P_BackendPlays ==
  /\ life = "live"
  /\ CanAdvance(audioPipeline)
  /\ audioPipeline' = Advanced(audioPipeline)
  /\ Returns("backend", <<>>, FALSE)
  /\ UNCHANGED <<life, objRest>>

\* the pipeline of the object posts an ERROR
P_BackendFails ==
  /\ life = "live"
  /\ CanFail(audioPipeline)
  /\ audioPipeline' = Errored(audioPipeline)
  /\ Returns("backend", <<>>, FALSE)
  /\ UNCHANGED <<life, objRest>>

\* AudioPipeline::busCallback for the first message on the bus of the object
P_BusCallback ==
  /\ life = "live"
  /\ CanDeliver(audioPipeline)
  /\ audioPipeline' = Delivered(audioPipeline)
  /\ Returns("busCallback", <<Head(audioPipeline.bus)>>, FALSE)
  /\ UNCHANGED <<life, objRest>>

PipelineNext ==
  \/ \E file \in Files, volume \in Levels : P_Construct(file, volume)
  \/ P_Start
  \/ \E semitones \in Semitones : P_SetPitch(semitones)
  \/ \E volume \in Levels : P_SetVolume(volume)
  \/ P_Stop
  \/ P_Destruct
  \/ \E answer \in StateChangeAnswers : P_StopEnd(answer)
  \/ P_BackendPlays
  \/ P_BackendFails
  \/ P_BusCallback

\* gst_element_get_state waits one second at most, so a stop() that waits
\* goes on
SpecPipeline ==
  /\ Init
  /\ [][PipelineNext]_vars
  /\ WF_vars(\E answer \in StateChangeAnswers : P_StopEnd(answer))

\* ====================================================================
\* main() and the threads that run code of the AudioProcessor.  main()
\* registers the configured samples and checks the count; then the key
\* handler ("input") and the trigger callback of tick() ("ticker") call
\* playSampleWithPitch, and the bus watch ("backend") delivers the messages
\* of the pipelines to busCallback.  playSampleWithPitch is cut after the
\* lock is taken and after setPitch; busCallback is cut after its write of
\* is_playing_.
\* ====================================================================

\* std::map<char, SampleSpec> is walked in key order
KeyOrder == <<"q", "w">>

IsConfigured(key) == config[key] # NoFile

\* the keys of sample_map, in the order the registration loop visits them
Configured == SelectSeq(KeyOrder, IsConfigured)

\* the members of an AudioPipeline that triggers and callbacks change
VoiceFields == {"pitch_semitones_", "is_playing_", "pipeline_"}

\* the (key, semitones) pairs the threads pass to playSampleWithPitch: "q",
\* played in pitch mode an octave up and an octave down
Triggers == {<<"q", 12>>, <<"q", -12>>}

\* the locks a thread holds where it calls playSampleWithPitch: tick() invokes
\* _keyTriggerCallback inside the scope of its lock_guard
HeldAtCall(self) == IF self = "ticker" THEN {"_sequencePointLock"} ELSE {}

StartupInit ==
  /\ ExtInit
  /\ playing = FALSE
  /\ recording = FALSE
  /\ sinceRecordStart = 0
  /\ sincePlayStart = 0
  /\ sequenceLength = 0
  /\ previousPlayPosition = 0
  /\ currentSequenceIndex = 0
  /\ currentIndex = 0
  /\ sequencePoints = <<>>
  /\ sequencePointLock = "free"
  /\ pc = [t \in Threads |-> "idle"]
  /\ localPos = 0
  /\ localPt = NoPoint
  /\ access = [fields |-> {}, locked |-> FALSE]
  /\ op = "init"
  /\ args = <<>>
  /\ fired = <<>>
  /\ lastTick = -1
  /\ maxGap = 0
  /\ firstFires = 0
  /\ firstFiresInLoop = 0
  /\ replay = "fresh"
  /\ recorded = <<>>
  /\ sampleMap = [k \in Keys |-> NoFile]
  /\ pipelines = [k \in Keys |-> NoVoice]
  /\ mutex = "free"
  /\ vpc = [t \in VoiceThreads |-> IF t = "main" THEN "load" ELSE "idle"]
  /\ vcall = [t \in VoiceThreads |-> NoCall]
  /\ result = FALSE
  /\ blocked = NoBlocking
  /\ config \in [Keys -> Files \cup {NoFile}]
  /\ regIndex = 1
  /\ registeredCount = 0

VGoto(self, label) == vpc' = [vpc EXCEPT ![self] = label]

\* main: sample_map.empty() ends the program before the loop
M_Load ==
  /\ vpc["main"] = "load"
  /\ VGoto("main", IF Configured = <<>> THEN "failed" ELSE "register")
  /\ op' = "load"
  /\ args' = <<>>
  /\ fired' = <<>>
  /\ result' = FALSE
  /\ blocked' = NoBlocking
  /\ UNCHANGED <<sampleMap, pipelines, mutex, vcall, config, regIndex,
                 registeredCount, sequencerVars, extVars>>

\* main: one pass of the registration loop, register_if_exists for the next key
M_Register ==
  /\ vpc["main"] = "register"
  /\ regIndex <= Len(Configured)
  /\ LET key == Configured[regIndex]
         file == config[key]
     IN IF FileExists(file)
        THEN /\ \E volume \in Volumes : Registered(key, file, volume)
             /\ blocked' = RegisterBlocking(file)
             /\ registeredCount' = registeredCount + 1
             /\ result' = TRUE
             /\ args' = <<key, file>>
        ELSE /\ blocked' = [ops |-> {"io"}, locks |-> {}]
             /\ result' = FALSE
             /\ args' = <<key, file>>
             /\ UNCHANGED <<sampleMap, pipelines, registeredCount>>
  /\ regIndex' = regIndex + 1
  /\ op' = "register_if_exists"
  /\ fired' = <<>>
  /\ UNCHANGED <<mutex, vpc, vcall, config, sequencerVars, extVars>>

\* assert(registered_count == sample_map.size())
AssertHolds == registeredCount = Len(Configured)

\* main: after the loop, the test for zero samples and the assertion
M_Check ==
  /\ vpc["main"] = "register"
  /\ regIndex > Len(Configured)
  /\ VGoto("main", IF registeredCount = 0 THEN "failed"
                   ELSE IF ~AssertHolds THEN "aborted"
                   ELSE "running")
  /\ op' = "check"
  /\ args' = <<>>
  /\ fired' = <<>>
  /\ result' = FALSE
  /\ blocked' = NoBlocking
  /\ UNCHANGED <<sampleMap, pipelines, mutex, vcall, config, regIndex,
                 registeredCount, sequencerVars, extVars>>

CanLockAlways(self) == TRUE

\* std::lock_guard<std::mutex> lock(mutex_) gets the mutex
CanLock(self) == mutex = "free"

VTouch(fields, self) == access' = [fields |-> fields, locked |-> mutex = self]

NotReleased(self) == self

\* the lock_guard of playSampleWithPitch goes out of scope
Released(self) == "free"

\* playSampleWithPitch is entered by a thread: the lock is taken, or the
\* thread waits for it
Called(self, key, semitones) ==
  /\ vpc["main"] = "running"
  /\ vpc[self] = "idle"
  /\ vcall' = [vcall EXCEPT ![self] = [key |-> key, semitones |-> semitones]]
  /\ IF CanLock(self)
     THEN /\ mutex' = self
          /\ VGoto(self, "v_find")
          /\ blocked' = NoBlocking
     ELSE /\ VGoto(self, "v_lock")
          /\ blocked' = [ops |-> {"lock wait"}, locks |-> HeldAtCall(self)]
          /\ UNCHANGED mutex
  /\ VTouch({}, self)
  /\ Midway
  /\ result' = FALSE
  /\ UNCHANGED <<sampleMap, pipelines, config, regIndex, registeredCount, extVars>>

\* playSampleWithPitch is called: the lock is taken, or the thread waits for it
V_Call(self, key, semitones) ==
  /\ Called(self, key, semitones)
  /\ UNCHANGED sequencerRest

\* the wait for mutex_ ends
V_Lock(self) ==
  /\ vpc[self] = "v_lock"
  /\ CanLock(self)
  /\ mutex' = self
  /\ VGoto(self, "v_find")
  /\ blocked' = NoBlocking
  /\ VTouch({}, self)
  /\ Midway
  /\ result' = FALSE
  /\ UNCHANGED <<sampleMap, pipelines, vcall, config, regIndex, registeredCount,
                 sequencerRest, extVars>>

\* playSampleWithPitch, lines 92-99: the lookup, the not-found return, setPitch
V_SetPitch(self) ==
  /\ vpc[self] = "v_find"
  /\ LET it == Find(vcall[self].key)
     IN IF it = "end"
        THEN /\ result' = FALSE
             /\ blocked' = [ops |-> {"io"}, locks |-> {"mutex_"} \cup HeldAtCall(self)]
             /\ mutex' = Released(self)
             /\ VGoto(self, "idle")
             /\ vcall' = [vcall EXCEPT ![self] = NoCall]
             /\ VTouch({}, self)
             /\ op' = "trigger"
             /\ args' = <<vcall[self].key, vcall[self].semitones>>
             /\ fired' = <<>>
             /\ UNCHANGED pipelines
        ELSE /\ pipelines' = [pipelines EXCEPT ![it] = setPitch(@, vcall[self].semitones)]
             /\ blocked' = NoBlocking
             /\ VGoto(self, "v_start")
             /\ VTouch({"pitch_semitones_"}, self)
             /\ Midway
             /\ result' = FALSE
             /\ UNCHANGED <<mutex, vcall>>
  /\ UNCHANGED <<sampleMap, config, regIndex, registeredCount, sequencerRest, extVars>>

\* playSampleWithPitch, lines 102-107: start() and the return
V_Start(self) ==
  /\ vpc[self] = "v_start"
  /\ pipelines' = [pipelines EXCEPT ![vcall[self].key] = start(@)]
  /\ result' = startResult(pipelines[vcall[self].key])
  /\ blocked' = NoBlocking
  /\ mutex' = Released(self)
  /\ VGoto(self, "idle")
  /\ vcall' = [vcall EXCEPT ![self] = NoCall]
  /\ VTouch({"is_playing_", "pipeline_"}, self)
  /\ op' = "trigger"
  /\ args' = <<vcall[self].key, vcall[self].semitones>>
  /\ fired' = <<>>
  /\ UNCHANGED <<sampleMap, config, regIndex, registeredCount, sequencerRest, extVars>>

\* busCallback up to its write of is_playing_ (line 294 or 319); after an
\* ERROR nothing else of the voice is changed
B_Take(key) ==
  LET voice == pipelines[key]
  IN /\ vpc["backend"] = "idle"
     /\ voice.bound
     /\ voice.bus # <<>>
     /\ pipelines' = [pipelines EXCEPT ![key] =
                        [voice EXCEPT !.bus = Tail(voice.bus), !.isPlaying = FALSE]]
     /\ IF Head(voice.bus) = "EOS"
        THEN /\ VGoto("backend", "b_rewind")
             /\ vcall' = [vcall EXCEPT !["backend"] = [key |-> key, semitones |-> 0]]
             /\ Midway
        ELSE /\ op' = "busCallback"
             /\ args' = <<key, "ERROR">>
             /\ fired' = <<>>
             /\ UNCHANGED <<vpc, vcall>>
     /\ VTouch({"is_playing_"}, "backend")
     /\ result' = FALSE
     /\ blocked' = NoBlocking
     /\ UNCHANGED <<sampleMap, mutex, config, regIndex, registeredCount, sequencerRest, extVars>>

\* busCallback, GST_MESSAGE_EOS, lines 296-305
B_Rewind ==
  /\ vpc["backend"] = "b_rewind"
  /\ pipelines' = [pipelines EXCEPT ![vcall["backend"].key] = Rewound(@)]
  /\ VGoto("backend", "idle")
  /\ vcall' = [vcall EXCEPT !["backend"] = NoCall]
  /\ VTouch({"pipeline_"}, "backend")
  /\ op' = "busCallback"
  /\ args' = <<vcall["backend"].key, "EOS">>
  /\ fired' = <<>>
  /\ result' = FALSE
  /\ blocked' = NoBlocking
  /\ UNCHANGED <<sampleMap, mutex, config, regIndex, registeredCount, sequencerRest, extVars>>

VoiceConcNext ==
  \/ M_Load
  \/ M_Register
  \/ M_Check
  \/ \E self \in {"input", "ticker"}, trigger \in Triggers :
       V_Call(self, trigger[1], trigger[2])
  \/ \E self \in {"input", "ticker"} : V_Lock(self)
  \/ \E self \in {"input", "ticker"} : V_SetPitch(self)
  \/ \E self \in {"input", "ticker"} : V_Start(self)
  \/ \E key \in Keys : BackendPlays(key)
  \/ \E key \in Keys : BackendFails(key)
  \/ \E key \in Keys : B_Take(key)
  \/ B_Rewind

SpecVoiceConc == StartupInit /\ [][VoiceConcNext]_vars

\* ====================================================================
\* The two locks together: the key handler ("input") calls toggleRecording,
\* recordKey, togglePlaying and playSampleWithPitch one after the other; the
\* sequencer thread ("ticker") runs tick(), which takes _sequencePointLock
\* and, inside the while loop, calls the trigger callback of main(), which
\* calls playSampleWithPitch and so takes mutex_.  tick() is cut where it
\* takes its lock, at each callback and at the return of each callback.  The
\* refresh thread reads the atomic flags.  busCallback takes neither lock
\* (B_Take and B_Rewind leave mutex alone) and is not a thread of this
\* specification.
\* ====================================================================

\* the key presses and triggers of the key handler here: "q" at its pitch
LockPress == <<"q", 0>>

\* main() has registered a sample for "q" and started the threads
LocksInit ==
  /\ pipelines = [k \in Keys |-> IF k = "q" THEN NewVoice("kick.wav", 8) ELSE NoVoice]
  /\ sampleMap = [k \in Keys |-> IF k = "q" THEN "kick.wav" ELSE NoFile]
  /\ ExtInit
  /\ SequencerInit
  /\ mutex = "free"
  /\ vpc = [t \in VoiceThreads |-> IF t = "main" THEN "running" ELSE "idle"]
  /\ vcall = [t \in VoiceThreads |-> NoCall]
  /\ result = FALSE
  /\ blocked = NoBlocking
  /\ config = [k \in Keys |-> IF k = "q" THEN "kick.wav" ELSE NoFile]
  /\ regIndex = 1
  /\ registeredCount = 1

\* tick, lines 105-110, with the lock held: the cursor is reset after a wrap
LK_Body ==
  /\ pc["ticker"] = "tk_body"
  /\ currentIndex' = ScanStart(localPos)
  /\ Goto("ticker", "tk_loop")
  /\ Touch({"currentIndex", "previousPlayPosition"}, sequencePointLock = "ticker")
  /\ Midway
  /\ UNCHANGED <<playing, recording, sinceRecordStart, sincePlayStart, sequenceLength,
                 previousPlayPosition, currentSequenceIndex, sequencePoints,
                 sequencePointLock, localPos, localPt, playHist, recorded, voiceVars>>

\* tick, lines 115-121: the next point is due and the trigger callback of
\* main() calls playSampleWithPitch
LK_Call ==
  /\ pc["ticker"] = "tk_loop"
  /\ currentIndex < Len(sequencePoints)
  /\ Due(sequencePoints[currentIndex + 1], localPos)
  /\ Called("ticker", sequencePoints[currentIndex + 1].key,
            sequencePoints[currentIndex + 1].pitch)
  /\ pc' = [pc EXCEPT !["ticker"] = "tk_called"]
  /\ UNCHANGED <<seqVars, sequencePointLock, localPos, localPt, playHist, recorded>>

\* tick, line 124: the callback has returned
LK_Return ==
  /\ pc["ticker"] = "tk_called"
  /\ vpc["ticker"] = "idle"
  /\ currentIndex' = currentIndex + 1
  /\ Goto("ticker", "tk_loop")
  /\ Touch({"currentIndex"}, sequencePointLock = "ticker")
  /\ Midway
  /\ UNCHANGED <<playing, recording, sinceRecordStart, sincePlayStart, sequenceLength,
                 previousPlayPosition, currentSequenceIndex, sequencePoints,
                 sequencePointLock, localPos, localPt, playHist, recorded, voiceVars>>

\* tick, lines 125-131: no point is due any more; the lock_guard releases
LK_Leave ==
  /\ pc["ticker"] = "tk_loop"
  /\ ~(/\ currentIndex < Len(sequencePoints)
       /\ Due(sequencePoints[currentIndex + 1], localPos))
  /\ previousPlayPosition' = localPos
  /\ sequencePointLock' = "free"
  /\ Goto("ticker", "idle")
  /\ Touch({"sequencePoints", "currentIndex", "previousPlayPosition"},
           sequencePointLock = "ticker")
  /\ localPos' = 0
  /\ op' = "tick"
  /\ args' = <<>>
  /\ fired' = <<>>
  /\ UNCHANGED <<playing, recording, sinceRecordStart, sincePlayStart, sequenceLength,
                 currentSequenceIndex, currentIndex, sequencePoints, localPt, playHist,
                 recorded, voiceVars>>

\* the refresh thread of main(): one pass of its loop reads the two atomic
\* flags of the sequencer and takes neither lock
Refresh ==
  /\ op' = "refresh"
  /\ args' = <<recording, playing>>
  /\ fired' = <<>>
  /\ UNCHANGED <<sequencerVars, voiceVars>>

\* the steps of a thread that is inside a call
LockSteps ==
  \/ TR_StopLock
  \/ TR_Stop
  \/ TR_StartLock
  \/ TR_Start
  \/ RK_Lock
  \/ RK_Push
  \/ TK_Lock
  \/ LK_Body
  \/ LK_Call
  \/ LK_Return
  \/ LK_Leave
  \/ \E self \in {"input", "ticker"} : V_Lock(self)
  \/ \E self \in {"input", "ticker"} : V_SetPitch(self)
  \/ \E self \in {"input", "ticker"} : V_Start(self)

LocksNext ==
  \/ ApiAdvance
  \/ vpc["input"] = "idle" /\ TR_Enter
  \/ vpc["input"] = "idle" /\ RK_Enter(LockPress[1], LockPress[2])
  \/ vpc["input"] = "idle" /\ TP_Call
  \/ pc["input"] = "idle" /\ V_Call("input", LockPress[1], LockPress[2])
  \/ TK_Enter
  \/ LockSteps
  \/ Refresh

SpecLocks == LocksInit /\ [][LocksNext]_vars

\* the files registered where one file that prepares and one that does not
\* are enough
LifeFiles == {"kick.wav", "gone.wav"}

\* ====================================================================
\* Replay: the Sequencer as main() builds it, its trigger callback calling
\* playSampleWithPitch of the AudioProcessor.  The calls are made one after
\* the other.  A start() may fail in gst_element_set_state(PLAYING).
\* ====================================================================

\* AudioPipeline::start when gst_element_set_state(PLAYING) returns FAILURE:
\* the seek is done, the flag is not set, false is returned
startFailing(voice) ==
  IF ~voice.pipeline \/ voice.isPlaying
  THEN start(voice)
  ELSE Seek(voice, RateOf(voice.pitch))

\* start() of this voice returns false
StartFails(voice, fails) == ~voice.pipeline \/ (fails /\ ~voice.isPlaying)

\* one call of the trigger callback, playSampleWithPitch(key, pitch), on the
\* registry and the results that a replay has got to; failing are the keys
\* whose pipeline refuses to play
ReplayOne(sofar, call, failing) ==
  LET k == call[1]
      voice == sofar.voices[k]
  IN IF ~voice.bound
     THEN [voices |-> sofar.voices,
           results |-> Append(sofar.results, <<k, call[2], FALSE>>)]
     ELSE [voices |-> [sofar.voices EXCEPT ![k] =
                         IF k \in failing
                         THEN startFailing(setPitch(voice, call[2]))
                         ELSE start(setPitch(voice, call[2]))],
           results |-> Append(sofar.results,
                              <<k, call[2],
                                ~StartFails(setPitch(voice, call[2]), k \in failing)>>)]

RECURSIVE ReplayedUntilFailure(_, _, _)
ReplayedUntilFailure(sofar, calls, failing) ==
  IF calls = <<>>
  THEN sofar
  ELSE LET next == ReplayOne(sofar, Head(calls), failing)
       IN IF next.results[Len(next.results)][3]
          THEN ReplayedUntilFailure(next, Tail(calls), failing)
          ELSE next

\* the callbacks of one tick(), made in order; the callback returns nothing
\* and throws nothing, so the loop of tick() goes on after a failure
RECURSIVE Replayed(_, _, _)
Replayed(sofar, calls, failing) ==
  IF calls = <<>>
  THEN sofar
  ELSE Replayed(ReplayOne(sofar, Head(calls), failing), Tail(calls), failing)

\* the sets of keys whose pipeline refuses to play during one tick()
FailingStarts == {{}, {"q"}}

\* the sets of keys registered at startup
StartupRegistries == {{"q"}, {"q", "w"}}

\* Sequencer::tick with the trigger callback of main()
ReplayTick(failing) ==
  /\ TickCalls
  /\ LET done == Replayed([voices |-> pipelines, results |-> <<>>], fired', failing)
     IN /\ pipelines' = done.voices
        /\ played' = done.results
  /\ result' = FALSE
  /\ blocked' = NoBlocking
  /\ UNCHANGED <<sampleMap, mutex, vpc, vcall, config, regIndex, registeredCount,
                 objVars, pipelinesToStop, ampVars, pitchModeActive, pitchModeKey,
                 pitchOctaveOffset, taped, tapVars>>

ReplayNext ==
  \/ ApiAdvance
  \/ ToggleRecording
  \/ \E press \in Presses : RecordKey(press[1], press[2])
  \/ TogglePlaying
  \/ \E failing \in FailingStarts : ReplayTick(failing)

\* the registry after the startup of main(): a key is bound to a prepared
\* voice if its file was registered, and to nothing if it was not
AfterStartup(registered) ==
  /\ pipelines = [k \in Keys |-> IF k \in registered
                                  THEN NewVoice("kick.wav", 8)
                                  ELSE NoVoice]
  /\ sampleMap = [k \in Keys |-> IF k \in registered THEN "kick.wav" ELSE NoFile]
  /\ ExtInit
  /\ SequencerInit
  /\ CallsInit

ReplayInit == \E registered \in StartupRegistries : AfterStartup(registered)

SpecReplay == ReplayInit /\ [][ReplayNext]_vars

\* ====================================================================
\* The life of an AudioProcessor: samples are registered and played, an
\* amplitude callback is set, the pad probes of the playing voices hand
\* amplitudes to it, and in the end the destructor runs.  The calls before
\* the destructor are made one after the other by "main"; the pad probe runs
\* on the streaming thread ("backend"), and the callback it forwards to may
\* call back into the AudioProcessor and take mutex_.  The destructor is cut
\* at its lock, after the move, and at the wait of each stop().
\* ====================================================================

lifeRest == <<config, regIndex, registeredCount, sequencerVars, objVars, keyVars,
              tapVars>>

\* the registry is in use by "main" and mutex_ is free, so a call can be made
CanCall ==
  /\ vpc["main"] = "idle"
  /\ mutex = "free"

L_Register(key, file) ==
  /\ CanCall
  /\ \E volume \in Volumes : RegisterSample(key, file, volume)

L_PlaySample(key) ==
  /\ CanCall
  /\ PlaySample(key)

L_BackendPlays(key) ==
  /\ vpc["main"] = "idle"
  /\ BackendPlays(key)

L_BusCallback(key) ==
  /\ vpc["main"] = "idle"
  /\ BusCallback(key)

NotInstalled(voices) == voices

\* setAmplitudeCallback, lines 28-36: every pipeline of the map gets a lambda
\* that captures its key
Installed(voices) ==
  [k \in Keys |-> IF voices[k].bound
                  THEN [voices[k] EXCEPT !.ampKey = k]
                  ELSE voices[k]]

\* AudioProcessor::setAmplitudeCallback
SetAmplitudeCallback(callback) ==
  /\ CanCall
  /\ amplitudeCallback' = callback
  /\ pipelines' = Installed(pipelines)
  /\ op' = "setAmplitudeCallback"
  /\ args' = <<callback>>
  /\ fired' = <<>>
  /\ result' = FALSE
  /\ blocked' = NoBlocking
  /\ UNCHANGED <<sampleMap, mutex, vpc, vcall, forwarded, pipelinesToStop, lifeRest>>

\* the AudioPipeline of a key, in pipelines_ or, once moved, in pipelines_to_stop
VoiceOf(key) ==
  IF pipelinesToStop[key].bound THEN pipelinesToStop[key] ELSE pipelines[key]

\* what the lambda installed on a voice does with an amplitude: it calls
\* amplitude_callback_ of the AudioProcessor, if that is set, with its key
Forwarded(voice) ==
  IF voice.ampKey # NoKey /\ amplitudeCallback # NoCallback
  THEN <<amplitudeCallback, voice.ampKey>>
  ELSE <<>>

\* AudioPipeline::padProbeCallback for a buffer of a playing voice; the
\* callback of the user returns, or it calls into the AudioProcessor
PadProbe(key, reenters) ==
  /\ vpc["backend"] = "idle"
  /\ vpc["main"] # "destroyed"
  /\ VoiceOf(key).bound
  /\ VoiceOf(key).pipeline
  /\ VoiceOf(key).isPlaying
  /\ forwarded' = Forwarded(VoiceOf(key))
  /\ IF reenters /\ Forwarded(VoiceOf(key)) # <<>>
     THEN /\ VGoto("backend", "cb_wait")
          /\ vcall' = [vcall EXCEPT !["backend"] = [key |-> key, semitones |-> 0]]
     ELSE UNCHANGED <<vpc, vcall>>
  /\ op' = "padProbe"
  /\ args' = <<key>>
  /\ fired' = <<>>
  /\ result' = FALSE
  /\ blocked' = NoBlocking
  /\ UNCHANGED <<sampleMap, pipelines, mutex, amplitudeCallback, pipelinesToStop, lifeRest>>

\* the callback of the user gets mutex_
CB_Lock ==
  /\ vpc["backend"] = "cb_wait"
  /\ mutex = "free"
  /\ mutex' = "backend"
  /\ VGoto("backend", "cb_in")
  /\ Midway
  /\ result' = FALSE
  /\ blocked' = NoBlocking
  /\ UNCHANGED <<sampleMap, pipelines, vcall, ampVars, pipelinesToStop, lifeRest>>

\* the callback of the user releases mutex_ and returns to the pad probe
CB_Leave ==
  /\ vpc["backend"] = "cb_in"
  /\ mutex' = "free"
  /\ VGoto("backend", "idle")
  /\ vcall' = [vcall EXCEPT !["backend"] = NoCall]
  /\ Midway
  /\ result' = FALSE
  /\ blocked' = NoBlocking
  /\ UNCHANGED <<sampleMap, pipelines, ampVars, pipelinesToStop, lifeRest>>

MoveKeepsLock == "main"

\* ~AudioProcessor, line 13: the lock_guard goes out of scope after the move
MoveReleases == "free"

\* ~AudioProcessor, line 11
D_Lock ==
  /\ vpc["main"] = "idle"
  /\ mutex = "free"
  /\ mutex' = "main"
  /\ VGoto("main", "d_move")
  /\ Midway
  /\ result' = FALSE
  /\ blocked' = NoBlocking
  /\ UNCHANGED <<sampleMap, pipelines, vcall, ampVars, pipelinesToStop, lifeRest>>

\* ~AudioProcessor, lines 12-13: pipelines_to_stop = std::move(pipelines_)
D_Move ==
  /\ vpc["main"] = "d_move"
  /\ pipelinesToStop' = pipelines
  /\ pipelines' = [k \in Keys |-> NoVoice]
  /\ mutex' = MoveReleases
  /\ VGoto("main", "d_stop")
  /\ Midway
  /\ result' = FALSE
  /\ blocked' = NoBlocking
  /\ UNCHANGED <<sampleMap, vcall, ampVars, lifeRest>>

\* the entries of pipelines_to_stop whose stop() has not run yet
ToStop == SelectSeq(KeyOrder, LAMBDA k : pipelinesToStop[k].bound /\ pipelinesToStop[k].pipeline)

\* ~AudioProcessor, lines 16-18: stop() of the next pipeline, up to its wait
D_Stop ==
  /\ vpc["main"] = "d_stop"
  /\ ToStop # <<>>
  /\ pipelinesToStop' = [pipelinesToStop EXCEPT ![Head(ToStop)] = stopBegun(@)]
  /\ VGoto("main", "d_wait")
  /\ Midway
  /\ result' = FALSE
  /\ blocked' = [ops |-> {"backend wait"},
                 locks |-> IF mutex = "main" THEN {"mutex_"} ELSE {}]
  /\ UNCHANGED <<sampleMap, pipelines, mutex, vcall, ampVars, lifeRest>>

\* the streaming thread of a key is inside a callback
InCallback(key) ==
  /\ vpc["backend"] \in {"cb_wait", "cb_in"}
  /\ vcall["backend"].key = key

\* stop() of that pipeline, from the wait on: the pipeline reaches NULL once
\* its streaming thread is out of the callbacks
D_Stopped(answer) ==
  /\ vpc["main"] = "d_wait"
  /\ ~InCallback(Head(ToStop))
  /\ pipelinesToStop' = [pipelinesToStop EXCEPT ![Head(ToStop)] = stopEnded(@, answer)]
  /\ VGoto("main", "d_stop")
  /\ op' = "stop"
  /\ args' = <<Head(ToStop), answer>>
  /\ fired' = <<>>
  /\ result' = FALSE
  /\ blocked' = NoBlocking
  /\ UNCHANGED <<sampleMap, pipelines, mutex, vcall, ampVars, lifeRest>>

\* ~AudioProcessor, line 21: pipelines_to_stop goes out of scope and the
\* destructor of every AudioPipeline calls stop() once more
D_Done ==
  /\ vpc["main"] = "d_stop"
  /\ ToStop = <<>>
  /\ pipelinesToStop' = [k \in Keys |-> NoVoice]
  /\ VGoto("main", "destroyed")
  /\ op' = "destruct"
  /\ args' = <<>>
  /\ fired' = <<>>
  /\ result' = FALSE
  /\ blocked' = NoBlocking
  /\ UNCHANGED <<sampleMap, pipelines, mutex, vcall, ampVars, lifeRest>>

Teardown ==
  \/ D_Lock
  \/ D_Move
  \/ D_Stop
  \/ \E answer \in StateChangeAnswers : D_Stopped(answer)
  \/ D_Done

LifeNext ==
  \/ \E key \in Keys, file \in LifeFiles : L_Register(key, file)
  \/ \E callback \in AmplitudeCallbacks : SetAmplitudeCallback(callback)
  \/ \E key \in Keys : L_PlaySample(key)
  \/ \E key \in Keys : L_BackendPlays(key)
  \/ \E key \in Keys : L_BusCallback(key)
  \/ \E key \in Keys, reenters \in BOOLEAN : PadProbe(key, reenters)
  \/ CB_Lock
  \/ CB_Leave
  \/ Teardown

SpecLife == Init /\ [][LifeNext]_vars

\* ====================================================================
\* The key-press callback main() gives to the keyboard input: it keeps the
\* pitch mode (pitch_mode_active, pitch_mode_key, pitch_octave_offset), turns
\* a key event into calls of the Sequencer and of the AudioProcessor, and
\* returns.  The events arrive one after the other on the keyboard event
\* loop; samples were registered at startup.
\* ====================================================================

\* octaves the octave offset is shifted up or down
MaxOctaves == 1

\* key presses recorded in one session
MaxTaped == 1

\* key code 1: the keyboard input reports SHIFT pressed and released alone
ShiftAlone == "\\001"

\* what getPitchOffset returns for a key that is no piano key
NotPiano == -999

\* the key events of the keyboard input: sample keys, piano keys ("w" is both),
\* the octave keys, the sequencer controls, SHIFT with a key, SHIFT alone
KeyEvents ==
  ({"q", "w", "a", "z", "x", "1", "2"} \X {FALSE})
    \cup {<<"q", TRUE>>, <<ShiftAlone, FALSE>>}

\* getPitchOffset
getPitchOffset(key) ==
  CASE key = "a" -> 0
    [] key = "w" -> 1
    [] key = "s" -> 2
    [] key = "e" -> 3
    [] key = "d" -> 4
    [] key = "f" -> 5
    [] key = "t" -> 6
    [] key = "g" -> 7
    [] key = "y" -> 8
    [] key = "h" -> 9
    [] key = "u" -> 10
    [] key = "j" -> 11
    [] key = "k" -> 12
    [] OTHER -> NotPiano

\* what no key event changes
keyRest == <<threadVars, sampleMap, mutex, vpc, vcall, config, regIndex,
             registeredCount, objVars, pipelinesToStop, ampVars>>

\* the handler returns without a call of the AudioProcessor
NothingPlayed ==
  /\ played' = <<>>
  /\ result' = FALSE
  /\ blocked' = NoBlocking
  /\ UNCHANGED pipelines

\* the handler returns without a call of recordKey
NothingTaped ==
  /\ taped' = <<>>
  /\ UNCHANGED <<seqVars, recorded>>

\* audio_processor->playSampleWithPitch(key, semitones), its value discarded
HandlerPlays(key, semitones) ==
  LET call == playSampleWithPitch(key, semitones)
  IN /\ pipelines' = call.pipelines
     /\ played' = <<(<<key, semitones, call.result>>)>>
     /\ result' = FALSE
     /\ blocked' = TriggerBlocking(key)

\* sequencer->recordKey(key, pitch)
HandlerRecords(key, pitch) ==
  /\ recording => Len(sequencePoints) < MaxTaped
  /\ taped' = <<(<<key, pitch>>)>>
  /\ recordKey(key, pitch)

\* SHIFT alone leaves pitch mode
ExitPitchMode ==
  /\ pitchModeActive' = FALSE
  /\ UNCHANGED <<pitchModeKey, pitchOctaveOffset, playHist>>
  /\ NothingPlayed
  /\ NothingTaped

EnterPitchModeAgain(key) ==
  /\ pitchModeKey' = key
  /\ pitchModeActive' = TRUE
  /\ pitchOctaveOffset' = 0
  /\ UNCHANGED playHist
  /\ NothingPlayed
  /\ NothingTaped

\* SHIFT with a key enters pitch mode for that key, unless it is active
EnterPitchMode(key) ==
  /\ IF ~pitchModeActive
     THEN /\ pitchModeKey' = key
          /\ pitchModeActive' = TRUE
          /\ pitchOctaveOffset' = 0
     ELSE UNCHANGED <<pitchModeActive, pitchModeKey, pitchOctaveOffset>>
  /\ UNCHANGED playHist
  /\ NothingPlayed
  /\ NothingTaped

\* "1" and "2": the sequencer controls, in normal mode and in pitch mode
SequencerControl(key) ==
  /\ IF key = "1"
     THEN toggleRecording
     ELSE /\ togglePlaying
          /\ UNCHANGED <<recording, sinceRecordStart, sequenceLength,
                         sequencePoints, recorded>>
  /\ ResetPlayHist
  /\ replay' = IF key = "1" THEN "fresh" ELSE Toggled
  /\ taped' = <<>>
  /\ NothingPlayed
  /\ UNCHANGED <<pitchModeActive, pitchModeKey, pitchOctaveOffset>>

PitchModePlaysOffsetOnly(key) ==
  LET offset == getPitchOffset(key)
      octave == IF key = "z" THEN pitchOctaveOffset - 12 ELSE pitchOctaveOffset + 12
  IN IF key \in {"z", "x"}
     THEN /\ octave \in (0 - 12 * MaxOctaves)..(12 * MaxOctaves)
          /\ pitchOctaveOffset' = octave
          /\ UNCHANGED <<pitchModeActive, pitchModeKey, playHist>>
          /\ NothingPlayed
          /\ NothingTaped
     ELSE IF offset = NotPiano
     THEN /\ UNCHANGED <<pitchModeActive, pitchModeKey, pitchOctaveOffset, playHist>>
          /\ NothingPlayed
          /\ NothingTaped
     ELSE /\ HandlerPlays(pitchModeKey, offset)
          /\ HandlerRecords(pitchModeKey, offset)
          /\ UNCHANGED <<pitchModeActive, pitchModeKey, pitchOctaveOffset, playHist>>

\* a key in pitch mode: "z" and "x" shift the octave, a piano key plays the
\* selected sample and records it, any other key is ignored
PitchModeKey(key) ==
  LET offset == getPitchOffset(key)
      octave == IF key = "z" THEN pitchOctaveOffset - 12 ELSE pitchOctaveOffset + 12
  IN IF key \in {"z", "x"}
     THEN /\ octave \in (0 - 12 * MaxOctaves)..(12 * MaxOctaves)
          /\ pitchOctaveOffset' = octave
          /\ UNCHANGED <<pitchModeActive, pitchModeKey, playHist>>
          /\ NothingPlayed
          /\ NothingTaped
     ELSE IF offset = NotPiano
     THEN /\ UNCHANGED <<pitchModeActive, pitchModeKey, pitchOctaveOffset, playHist>>
          /\ NothingPlayed
          /\ NothingTaped
     ELSE /\ HandlerPlays(pitchModeKey, offset + pitchOctaveOffset)
          /\ HandlerRecords(pitchModeKey, offset + pitchOctaveOffset)
          /\ UNCHANGED <<pitchModeActive, pitchModeKey, pitchOctaveOffset, playHist>>

NormalModeTapesOctaveUp(key) ==
  /\ HandlerRecords(key, 12)
  /\ HandlerPlays(key, 0)
  /\ UNCHANGED <<pitchModeActive, pitchModeKey, pitchOctaveOffset, playHist>>

\* a key in normal mode: recorded with no pitch and played at the original pitch
NormalModeKey(key) ==
  /\ HandlerRecords(key, 0)
  /\ HandlerPlays(key, 0)
  /\ UNCHANGED <<pitchModeActive, pitchModeKey, pitchOctaveOffset, playHist>>

\* the key-press callback of main()
KeyPress(key, shift) ==
  /\ op' = "keyPress"
  /\ args' = <<key, shift>>
  /\ fired' = <<>>
  /\ IF key = ShiftAlone THEN ExitPitchMode
     ELSE IF shift THEN EnterPitchMode(key)
     ELSE IF key \in {"1", "2"} THEN SequencerControl(key)
     ELSE IF pitchModeActive THEN PitchModeKey(key)
     ELSE NormalModeKey(key)
  /\ UNCHANGED keyRest

KeysNext ==
  /\ \E event \in KeyEvents : KeyPress(event[1], event[2])
  /\ UNCHANGED tapVars

\* a sample was registered for "q" and none for "w"
KeysInit == AfterStartup({"q"})

SpecKeys == KeysInit /\ [][KeysNext]_vars

\* ====================================================================
\* The event tap of the keyboard input in front of the key-press callback:
\* eventTapCallbackC gets the modifier changes and the key-down events of
\* the keyboard, keeps track of SHIFT in two statics, and calls the
\* callback of main() for a mapped key and for SHIFT pressed and released
\* alone.  SHIFT is up when the tap is installed.
\* ====================================================================

\* the mapped keys pressed here: a sample key, a piano key, the octave-up key
\* and the recording control
TapKeys == {"q", "a", "x", "1"}

\* the tap returns without a call of callback_
NoCallbackCall ==
  /\ op' = "tap"
  /\ args' = <<>>
  /\ fired' = <<>>
  /\ NothingPlayed
  /\ NothingTaped
  /\ UNCHANGED <<pitchModeActive, pitchModeKey, pitchOctaveOffset, playHist, keyRest>>

\* eventTapCallbackC, kCGEventFlagsChanged
FlagsChanged(isShiftPressed) ==
  /\ IF ~wasShiftPressed /\ isShiftPressed
     THEN /\ keyPressedWithShift' = FALSE
          /\ NoCallbackCall
     ELSE IF wasShiftPressed /\ ~isShiftPressed
     THEN /\ IF ~keyPressedWithShift
             THEN KeyPress(ShiftAlone, FALSE)
             ELSE NoCallbackCall
          /\ keyPressedWithShift' = FALSE
     ELSE /\ NoCallbackCall
          /\ UNCHANGED keyPressedWithShift
  /\ wasShiftPressed' = isShiftPressed

\* SHIFT goes down
ShiftDown ==
  /\ ~shiftHeld
  /\ shiftHeld' = TRUE
  /\ keySinceShift' = FALSE
  /\ FlagsChanged(TRUE)

\* SHIFT goes up
ShiftUp ==
  /\ shiftHeld
  /\ shiftHeld' = FALSE
  /\ UNCHANGED keySinceShift
  /\ FlagsChanged(FALSE)

\* another modifier changes
ModifierChanged ==
  /\ UNCHANGED <<shiftHeld, keySinceShift>>
  /\ FlagsChanged(shiftHeld)

\* eventTapCallbackC, kCGEventKeyDown of a key the tap maps to a character
KeyDown(key) ==
  /\ keyPressedWithShift' = IF shiftHeld THEN TRUE ELSE keyPressedWithShift
  /\ KeyPress(key, shiftHeld)
  /\ keySinceShift' = IF shiftHeld THEN TRUE ELSE keySinceShift
  /\ UNCHANGED <<shiftHeld, wasShiftPressed>>

\* eventTapCallbackC, kCGEventKeyDown of a key it maps to nothing (key == 0)
UnmappedKeyDown ==
  /\ NoCallbackCall
  /\ UNCHANGED tapVars

TapNext ==
  \/ ShiftDown
  \/ ShiftUp
  \/ ModifierChanged
  \/ \E key \in TapKeys : KeyDown(key)
  \/ UnmappedKeyDown

SpecTap == KeysInit /\ [][TapNext]_vars

\* ====================================================================
\* Properties of the Sequencer, calls made one after the other (Spec)
\* ====================================================================

\* C1: whenever toggleRecording() ends a recording session, the sequencer is
\* playing when the call returns, whatever the playing flag was before.
C1_PlayingAfterRecordingStops == op = "stopRecording" => playing

\* The looping sequence of C2: length L, points at t = 0 and t = L - 1 ms.
C2_Looping ==
  /\ playing /\ ~recording
  /\ sequenceLength >= 2
  /\ Len(sequencePoints) = 2
  /\ sequencePoints[1].time = 0
  /\ sequencePoints[2].time = sequenceLength - 1

\* the t = 0 point has fired once in the loop iteration of the latest tick and
\* once in every iteration before it
C2_OncePerLoop ==
  /\ firstFiresInLoop = 1
  /\ firstFires = LoopOf(lastTick) + 1

\* C2 as stated: over any run of tick() calls after togglePlaying(), the t = 0
\* point of the looping sequence fires exactly once in every loop iteration
\* (here: in every loop iteration in which tick() has been called).
C2_OncePerLoopAnyTicks == (C2_Looping /\ lastTick # -1) => firstFiresInLoop = 1

\* C2 amended: the same, provided every tick() follows the previous tick() (the
\* first one: togglePlaying()) by less than the sequence length L.
C2_OncePerLoopDenseTicks ==
  (C2_Looping /\ lastTick # -1 /\ maxGap < sequenceLength) => C2_OncePerLoop

C2_Witness ==
  /\ C2_Looping
  /\ maxGap < sequenceLength
  /\ maxGap > 0
  /\ LoopOf(lastTick) >= 2
  /\ firstFires = 3

\* The recording of C3: length L, one point at time t with 0 < t < L.
C3_Single ==
  /\ playing /\ ~recording
  /\ Len(sequencePoints) = 1
  /\ 0 < sequencePoints[1].time
  /\ sequencePoints[1].time < sequenceLength

C3_Point == <<sequencePoints[1].key, sequencePoints[1].pitch>>

\* the tick being taken is the first one at or after T0 + n*L + t
C3_FirstTickAtOrAfter(n) ==
  LET due == n * sequenceLength + sequencePoints[1].time
  IN (lastTick = -1 \/ lastTick < due) /\ due <= sincePlayStart

\* C3 as stated: every tick() before T0+t invokes no callback, the first tick()
\* at or after T0+t invokes it exactly once with the recorded (key, pitch), and
\* so does the first tick() at or after T0+L+t.
C3_FiresAtRecordedTime ==
  [][(op' = "tick" /\ C3_Single) =>
       /\ sincePlayStart < sequencePoints[1].time => fired' = <<>>
       /\ C3_FirstTickAtOrAfter(0) => fired' = <<C3_Point>>
       /\ C3_FirstTickAtOrAfter(1) => fired' = <<C3_Point>>]_vars

\* C3 amended: every tick() before T0+t invokes no callback; provided every
\* tick() follows the previous one (the first: togglePlaying()) by less than
\* L - t, the first tick() at or after T0+n*L+t, n = 0, 1, ..., invokes the
\* callback exactly once with the recorded (key, pitch) and every other tick()
\* invokes nothing.
C3_FiresAtRecordedTimeDense ==
  [][(op' = "tick" /\ C3_Single) =>
       /\ sincePlayStart < sequencePoints[1].time => fired' = <<>>
       /\ maxGap' < sequenceLength - sequencePoints[1].time =>
            fired' = IF \E n \in 0..MaxPlay : C3_FirstTickAtOrAfter(n)
                     THEN <<C3_Point>>
                     ELSE <<>>]_vars

C3_Witness ==
  /\ op = "tick"
  /\ C3_Single
  /\ maxGap < sequenceLength - sequencePoints[1].time
  /\ sincePlayStart >= sequenceLength + sequencePoints[1].time
  /\ fired = <<C3_Point>>
  /\ C3_Point = <<"w", 12>>

\* C4: from the return of the toggleRecording() that stops a recording until
\* the next recording starts, the stored points are non-decreasing in time.
C4_SortedWhenNotRecording == ~recording => IsSorted(sequencePoints)

C4_Witness ==
  /\ op = "stopRecording"
  /\ Len(sequencePoints) = MaxPoints
  /\ sequencePoints[1].time < sequencePoints[2].time

\* the (key, pitch) pairs of the points recorded at time 0, in stored order
C5_ZeroPoints ==
  LET n == Cardinality({i \in 1..Len(sequencePoints) : sequencePoints[i].time = 0})
  IN Callbacks(sequencePoints, 0, n)

C5_FirstTick == op' = "tick" /\ playing /\ lastTick = -1 /\ C5_ZeroPoints # <<>>

C5_ZeroPointsFired ==
  /\ Len(fired') >= Len(C5_ZeroPoints)
  /\ SubSeq(fired', 1, Len(C5_ZeroPoints)) = C5_ZeroPoints

\* C5 as stated: a point with time_from_start = 0 fires on the very first
\* tick() that runs after togglePlaying() starts playback.
C5_ZeroPointFiresOnFirstTick ==
  [][C5_FirstTick => C5_ZeroPointsFired]_vars

\* C5 amended: in a sequence with sequence_length > 0, a point with
\* time_from_start = 0 fires on the very first tick() that runs after
\* togglePlaying() starts playback, also when that tick computes position 0.
C5_ZeroPointFiresOnFirstTickOfLoop ==
  [][(C5_FirstTick /\ sequenceLength > 0) => C5_ZeroPointsFired]_vars

C5_Witness ==
  /\ op = "tick"
  /\ playing
  /\ sincePlayStart = 0
  /\ lastTick = 0
  /\ sequencePoints # <<>>
  /\ sequencePoints[1].time = 0
  /\ fired # <<>>

\* C6: tick() on an empty sequence, on one with sequence_length <= 0, or while
\* not playing invokes no callback and leaves the cursor and previous_position
\* unchanged.  (Fmod is applied only past the guard; TLC rejects a modulo by
\* zero, so an unguarded std::fmod(x, 0) would show up as an evaluation error.)
C6_TickDoesNothing ==
  [][(op' = "tick" /\ (~playing \/ sequenceLength <= 0 \/ sequencePoints = <<>>)) =>
       /\ fired' = <<>>
       /\ UNCHANGED <<currentIndex, previousPlayPosition>>]_vars

C6_Witness ==
  /\ op = "tick"
  /\ playing
  /\ sequenceLength > 0
  /\ sequencePoints = <<>>
  /\ sincePlayStart > 0
  /\ previousPlayPosition = Sentinel

\* C7: the playing -> stopped transition of togglePlaying() resets the playback
\* cursor (the index of the next point to fire) to 0 and leaves the recorded
\* points and sequence_length unchanged.
C7_StopResetsCursor ==
  [][(op' = "togglePlaying" /\ playing /\ ~playing') =>
       /\ currentIndex' = 0
       /\ UNCHANGED <<sequencePoints, sequenceLength>>]_vars

\* C8: no public operation returns leaving recording and playing both true.
C8_NeverRecordingAndPlaying == ~(recording /\ playing)

\* C10: recordKey(key, pitch) leaves everything unchanged while recording is
\* false, and while it is true appends exactly the point
\* (key, now - record_start, pitch) and changes nothing else.
C10_RecordKeyFrame ==
  [][op' = "recordKey" =>
       /\ sequencePoints' =
            IF recording
            THEN Append(sequencePoints,
                        [key |-> args'[1], time |-> sinceRecordStart, pitch |-> args'[2]])
            ELSE sequencePoints
       /\ UNCHANGED <<playing, recording, sinceRecordStart, sincePlayStart,
                      sequenceLength, previousPlayPosition, currentSequenceIndex,
                      currentIndex>>]_vars

C10_Witness ==
  /\ op = "recordKey"
  /\ recording
  /\ args = <<"w", 12>>
  /\ sinceRecordStart > 0
  /\ Len(sequencePoints) = MaxPoints
  /\ sequencePoints[Len(sequencePoints)] = [key |-> "w", time |-> sinceRecordStart, pitch |-> 12]

\* the stopping toggleRecording() has returned and no later call of it has begun
C11_SessionEnded ==
  /\ ~recording
  /\ pc["input"] \notin {"tr_stop_lock", "tr_stop", "tr_start_lock", "tr_start"}

\* C11: once toggleRecording() has ended a recording session, no step of
\* recordKey, togglePlaying or tick on any thread changes the SequencePoint
\* collection until the next recording starts, a recordKey call that was in
\* flight when the session ended included.
C11_PointsImmutableAfterSession ==
  [][(C11_SessionEnded /\ C11_SessionEnded') => sequencePoints' = sequencePoints]_vars

\* the same points, in any order
C12_SamePoints(s, t) == Len(s) = Len(t) /\ t \in Reorderings(s)

\* C12: starting a recording empties the sequence and sets sequence_length to
\* 0, and once the recording has stopped the sequence holds exactly the points
\* recorded during that session, none from an earlier one.
C12_SequenceReplacedWholesale ==
  /\ op = "startRecording" => (sequencePoints = <<>> /\ sequenceLength = 0)
  /\ ~recording => C12_SamePoints(recorded, sequencePoints)

\* a later session has stopped and left only its own point: the cursor still
\* stands past the two points of an earlier session that a tick() had fired
C12_Witness ==
  /\ op = "stopRecording"
  /\ currentIndex = 2
  /\ sequenceLength > 0
  /\ sequencePoints = <<[key |-> "w", time |-> 1, pitch |-> 12]>>

\* C13: within one tick() the points handed to the trigger callback are fired
\* in non-decreasing time order, consecutively from the cursor (0 after a
\* wrap), and the scan stops at the first point whose time exceeds the
\* current position.
C13_TickFiresInOrder ==
  [][(op' = "tick" /\ playing /\ ~TickSkips) =>
       LET pos == previousPlayPosition'
           from == IF pos < previousPlayPosition THEN 0 ELSE currentIndex
           to == currentIndex'
       IN /\ from <= to
          /\ to <= Len(sequencePoints)
          /\ fired' = [i \in 1..(to - from) |->
                         <<sequencePoints[from + i].key, sequencePoints[from + i].pitch>>]
          /\ \A i \in (from + 1)..to : sequencePoints[i].time <= pos
          /\ \A i \in (from + 1)..to : \A j \in (from + 1)..to :
                i < j => sequencePoints[i].time <= sequencePoints[j].time
          /\ to < Len(sequencePoints) => sequencePoints[to + 1].time > pos]_vars

\* one tick fired two points recorded at different times, in time order
C13_Witness ==
  /\ op = "tick"
  /\ Len(fired) = 2
  /\ Len(sequencePoints) = 2
  /\ sequencePoints[1].time < sequencePoints[2].time
  /\ fired = <<<<sequencePoints[1].key, sequencePoints[1].pitch>>,
               <<sequencePoints[2].key, sequencePoints[2].pitch>>>>
  /\ currentIndex = 2

\* ====================================================================
\* Properties of the AudioProcessor, calls made one after the other (SpecVoice)
\* ====================================================================

\* the playback rate, in thousandths, that a pitch of whole octaves stands for
C14_Rate(semitones) ==
  CASE semitones = -12 -> 500
    [] semitones = 0 -> 1000
    [] semitones = 12 -> 2000

\* C14: trigger(key, p) on a voice that is already playing restarts that one
\* voice from position zero at the rate given by p and makes no second
\* instance for the key (the key keeps its one pipeline, the other keys are
\* untouched); after trigger(k, 12) directly followed by trigger(k, -12) the
\* voice plays at rate 0.5.
C14_RetriggerRestarts ==
  [][(op' = "trigger" /\ pipelines[args'[1]].bound /\ pipelines[args'[1]].isPlaying) =>
       LET k == args'[1]
       IN /\ result' = TRUE
          /\ pipelines'[k].pos = 0
          /\ pipelines'[k].rate = C14_Rate(args'[2])
          /\ pipelines'[k].isPlaying
          /\ pipelines'[k].state = "PLAYING"
          /\ pipelines'[k].file = pipelines[k].file
          /\ \A j \in Keys \ {k} : pipelines'[j] = pipelines[j]
          /\ (op = "trigger" /\ args = <<k, 12>> /\ args'[2] = -12) =>
                pipelines'[k].rate = 500]_vars

\* a voice that had played to its end, its EOS still on the bus, was triggered
\* again an octave down and plays from zero at half the rate
C14_Witness ==
  /\ op = "trigger"
  /\ args = <<"q", -12>>
  /\ pipelines["q"].bus = <<"EOS">>
  /\ pipelines["q"].isPlaying
  /\ pipelines["q"].state = "PLAYING"
  /\ pipelines["q"].pos = 0
  /\ pipelines["q"].rate = 500

\* C17: after a register(key, path, volume) whose voice preparation fails, a
\* following trigger(key, p) returns the not-found signal and starts nothing,
\* whatever registrations were made before.
C17_FailedRegisterLeavesKeyUnbound ==
  [][(/\ op = "register"
      /\ ~(FileExists(args[2]) /\ Prerolls(args[2]))
      /\ op' = "trigger"
      /\ args'[1] = args[1]) =>
       (result' = FALSE /\ pipelines' = pipelines)]_vars

\* C19: trigger(key, semitones) for a key with no bound voice returns false
\* and changes the pitch, the playing flag and the backend state of no voice.
C19_UnboundTriggerIsSilent ==
  [][(op' = "trigger" /\ ~pipelines[args'[1]].bound) =>
       (result' = FALSE /\ pipelines' = pipelines)]_vars

\* "w", whose registration failed, was triggered while the voice of "q" plays
C19_Witness ==
  /\ op = "trigger"
  /\ args = <<"w", 12>>
  /\ result = FALSE
  /\ sampleMap["w"] = "gone.wav"
  /\ ~pipelines["w"].bound
  /\ pipelines["q"].isPlaying
  /\ pipelines["q"].pos = 1
  /\ pipelines["q"].pitch = -12

\* a prepared voice that does not play, its pipeline paused at position zero
C23_Ready(voice) ==
  /\ voice.bound
  /\ voice.pipeline
  /\ ~voice.isPlaying
  /\ voice.state = "PAUSED"
  /\ voice.pos = 0

C30_PlaySampleIsZeroPitchTrigger ==
  \A key \in Keys :
    /\ playSample(key) = playSampleWithPitch(key, 0)
    /\ ~pipelines[key].bound => playSample(key).result = FALSE
    /\ pipelines[key].bound => playSample(key).pipelines[key].pitch = 0

\* playSample restarted, at the original rate, a voice that played to its end
\* while the other voice plays an octave up
C30_Witness ==
  /\ op = "playSample"
  /\ args = <<"q">>
  /\ result = TRUE
  /\ pipelines["q"].bus = <<"EOS">>
  /\ pipelines["q"].pitch = 0
  /\ pipelines["q"].rate = 1000
  /\ pipelines["q"].pos = 0
  /\ pipelines["q"].isPlaying
  /\ pipelines["w"].isPlaying
  /\ pipelines["w"].pitch = 12

\* ====================================================================
\* Properties of one AudioPipeline (SpecPipeline)
\* ====================================================================

\* the state of the voice.  A voice inside stop() counts as Destroyed: its
\* flag is cleared and its bus watch is gone before the wait.
C22_State ==
  CASE life = "uninitialized" -> "Uninitialized"
    [] life = "failed" -> "Failed"
    [] life \in {"stopping", "destructing", "destructed"} -> "Destroyed"
    [] ~audioPipeline.pipeline -> "Destroyed"
    [] audioPipeline.isPlaying -> "Playing"
    [] OTHER -> "Ready"

C22_Transitions ==
  {<<"Uninitialized", "Ready">>, <<"Ready", "Playing">>, <<"Playing", "Playing">>,
   <<"Playing", "Ready">>, <<"Ready", "Destroyed">>, <<"Playing", "Destroyed">>,
   <<"Uninitialized", "Failed">>}

\* C22: a voice changes state only by Uninitialized -> Ready, Ready ->
\* Playing (start), Playing -> Playing (re-trigger), Playing -> Ready
\* (completion), Ready|Playing -> Destroyed (stop) and Uninitialized -> Failed;
\* Failed and Destroyed are never left, and start() on a voice that has been
\* stopped returns failure and changes nothing.
C22_VoiceLifecycle ==
  [][/\ C22_State' # C22_State => <<C22_State, C22_State'>> \in C22_Transitions
     /\ (C22_State = "Ready" /\ C22_State' = "Playing") => op' = "start"
     /\ (C22_State = "Playing" /\ C22_State' = "Ready") => op' = "busCallback"
     /\ (C22_State = "Playing" /\ op' = "start") => C22_State' = "Playing"
     /\ (C22_State = "Destroyed" /\ op' = "start") =>
          (result' = FALSE /\ audioPipeline' = audioPipeline)]_vars

\* start() was called on a voice that had played an octave up and was stopped
C22_Witness ==
  /\ op = "start"
  /\ result = FALSE
  /\ life = "live"
  /\ ~audioPipeline.pipeline
  /\ audioPipeline.pitch = 12
  /\ audioPipeline.rate = 2000

\* C24: stop() is idempotent and always ends: the first call releases the
\* pipeline whatever the backend answers to the state change (success,
\* failure, or still pending when the bounded wait is over), and every later
\* call, the one of the destructor included, changes nothing.
C24_StopIdempotent ==
  /\ [][/\ (op' \in {"stop", "destruct"}) =>
             /\ ~audioPipeline'.pipeline
             /\ ~audioPipeline'.isPlaying
             /\ ~audioPipeline'.watch
             /\ audioPipeline'.state = "NULL"
        /\ (op' \in {"stop", "destruct"} /\ life = "live" /\ ~audioPipeline.pipeline) =>
             audioPipeline' = audioPipeline]_vars
  /\ (life \in {"stopping", "destructing"}) ~>
       (life \in {"live", "destructed"} /\ ~audioPipeline.pipeline)

\* the destructor ran stop() on a voice that a stop() with a pending state
\* change had released while it played
C24_Witness ==
  /\ op = "destruct"
  /\ args = <<>>
  /\ life = "destructed"
  /\ ~audioPipeline.pipeline
  /\ audioPipeline.pos = 1
  /\ audioPipeline.state = "NULL"

\* C25: the volume of a voice is always within [0.0, 1.0]: setVolume clamps a
\* level outside the range, and the volume given at registration is held to
\* the range too.
C25_VolumeInRange ==
  life # "uninitialized" => (audioPipeline.volume >= 0 /\ audioPipeline.volume <= 10)

\* ====================================================================
\* Properties of main() and of the threads of the AudioProcessor
\* (SpecVoiceConc)
\* ====================================================================

\* a thread is between its setPitch and the end of its start()
C15_InCall(t) == vpc[t] = "v_start"

\* C15: for concurrent triggers of one key from the input thread and the
\* sequencer thread, setPitch and start of one call are never interleaved with
\* those of another: every start() finds the pitch its own call has set and
\* seeks at the rate of that pitch, no other call stands between its setPitch
\* and its start, and the call that runs start() is the one that got the
\* registry lock last, so the last of them leaves the voice its rate.
C15_PitchAndStartPaired ==
  [][\A t \in {"input", "ticker"} :
       (C15_InCall(t) /\ ~C15_InCall(t)') =>
          LET k == vcall[t].key
          IN /\ mutex = t
             /\ \A u \in {"input", "ticker"} \ {t} : vpc[u] \in {"idle", "v_lock"}
             /\ pipelines[k].pitch = vcall[t].semitones
             /\ pipelines'[k].rate = C14_Rate(vcall[t].semitones)
             /\ pipelines'[k].pos = 0
             /\ result' = TRUE]_vars

\* the input thread has set "q" an octave up and is about to start it, while
\* the sequencer thread waits for the lock to trigger "q" an octave down
C15_Witness ==
  /\ vpc["input"] = "v_start"
  /\ vcall["input"] = [key |-> "q", semitones |-> 12]
  /\ pipelines["q"].pitch = 12
  /\ pipelines["q"].rate = 500
  /\ vpc["ticker"] = "v_lock"
  /\ vcall["ticker"] = [key |-> "q", semitones |-> -12]

\* C16: every change of a voice's stored pitch, playing flag and backend
\* play/pause state is made with the registry lock held by the thread that
\* makes it: the triggers of the input and the sequencer thread and the
\* completion callbacks (end of stream, error) of the backend.
C16_VoiceStateUnderLock ==
  (access.fields \cap VoiceFields) # {} => access.locked

\* registered_count after the loop is at least one
C18_SomeRegistered ==
  /\ vpc["main"] \in {"register", "running", "aborted", "failed"}
  /\ regIndex > Len(Configured)
  /\ registeredCount >= 1

\* C18: a configured sample whose file is missing or unreadable only leaves
\* its own key unbound: whenever at least one sample registers, the startup
\* assertion on the registered count holds and startup goes on to run.
C18_StartupProceeds ==
  C18_SomeRegistered =>
    (AssertHolds /\ vpc["main"] \in {"register", "running"})

\* C20: while the registry lock or the sequencer lock is held no blocking
\* operation is performed: no wait for a backend state change, no I/O, no
\* wait for another lock; in register(), in trigger() and in the trigger
\* callbacks of tick().
C20_NoBlockingUnderLock == blocked.ops # {} => blocked.locks = {}

\* ====================================================================
\* Properties of the threads (SpecConc)
\* ====================================================================

\* C9: every read or write of the SequencePoint collection, the cursor index
\* and previous_position by toggleRecording, recordKey, togglePlaying and
\* tick happens while the sequencer lock is held by the thread that makes it.
C9_GuardedStateUnderLock == access.fields # {} => access.locked

\* ====================================================================
\* Properties of the life of an AudioProcessor (SpecLife)
\* ====================================================================

\* the destructor is past its lock and not yet done
C21_Destroying == vpc["main"] \in {"d_move", "d_stop", "d_wait"}

\* C21: on destruction of the registry all voices are first moved out of it
\* under the lock, and then every one of them is stopped with the lock not
\* held, so a backend callback that takes the registry lock while a voice is
\* being stopped cannot deadlock the destroying thread: the destructor or the
\* callback can always take a step.
C21_TeardownWithoutLock ==
  /\ vpc["main"] = "d_move" => mutex = "main"
  /\ vpc["main"] \in {"d_stop", "d_wait"} =>
       /\ mutex # "main"
       /\ \A k \in Keys : ~pipelines[k].bound
  /\ C21_Destroying => ENABLED (Teardown \/ CB_Lock \/ CB_Leave)

\* the destructor waits in stop() of the voice of "q" while the callback that
\* the pad probe of that voice forwarded to holds the registry lock
C21_Witness ==
  /\ vpc["main"] = "d_wait"
  /\ Head(ToStop) = "q"
  /\ vpc["backend"] = "cb_in"
  /\ vcall["backend"].key = "q"
  /\ mutex = "backend"
  /\ pipelinesToStop["w"].isPlaying

\* C27: after setAmplitudeCallback(cb), every voice registered before the
\* call and every voice registered after it forwards its amplitude samples to
\* cb with its own key, whatever the order of the register and
\* setAmplitudeCallback calls.
C27_AmplitudesForwardedWithKey ==
  [][/\ amplitudeCallback' # NoCallback =>
          \A k \in Keys : VoiceOf(k)'.bound => VoiceOf(k)'.ampKey = k
     /\ (op' = "padProbe" /\ amplitudeCallback # NoCallback) =>
          forwarded' = <<amplitudeCallback, args'[1]>>]_vars

\* the callback was set a second time; the voice of "q" handed an amplitude to
\* cb2 under its key while the voice of "w", which a failed registration of
\* "w" has left in place, plays
C27_Witness ==
  /\ op = "padProbe"
  /\ args = <<"q">>
  /\ forwarded = <<"cb2", "q">>
  /\ pipelines["q"].bound
  /\ pipelines["w"].bound
  /\ pipelines["w"].isPlaying
  /\ sampleMap["w"] = "gone.wav"

\* ====================================================================
\* Properties of the replay (SpecReplay)
\* ====================================================================

\* the calls of the trigger callback that a tick() made for a key
C26_CallsOf(k, calls) == {i \in 1..Len(calls) : calls[i][1] = k}

C26_Last(indices) == CHOOSE i \in indices : \A j \in indices : j <= i

\* C26: a failure while one SequencePoint is replayed (its key is unbound, or
\* start() of its voice fails) does not abort tick(): every point due in the
\* tick has its trigger call, the cursor goes past the failed point, and no
\* voice other than those of the triggered keys is changed; a voice whose
\* trigger succeeded plays from zero at the pitch of its point.
C26_TickIsolatesFailures ==
  [][op' = "tick" =>
       /\ Len(played') = Len(fired')
       /\ \A i \in 1..Len(fired') :
            /\ played'[i][1] = fired'[i][1]
            /\ played'[i][2] = fired'[i][2]
       /\ Len(fired') > 0 =>
            currentIndex' = ScanStart(Fmod(sincePlayStart, sequenceLength)) + Len(fired')
       /\ \A k \in Keys :
            IF C26_CallsOf(k, played') = {} \/ ~pipelines[k].bound
            THEN pipelines'[k] = pipelines[k]
            ELSE LET last == C26_Last(C26_CallsOf(k, played'))
                 IN /\ pipelines'[k].pitch = played'[last][2]
                    /\ pipelines'[k].pos = 0
                    /\ pipelines'[k].file = pipelines[k].file
                    /\ played'[last][3] =>
                         (pipelines'[k].isPlaying /\ pipelines'[k].state = "PLAYING")]_vars

\* one tick() had two points due: start() of the voice of "q" failed, and the
\* point of "w" after it was triggered and plays
C26_Witness ==
  /\ op = "tick"
  /\ played = <<(<<"q", 0, FALSE>>), (<<"w", 12, TRUE>>)>>
  /\ currentIndex = 2
  /\ ~pipelines["q"].isPlaying
  /\ pipelines["w"].isPlaying
  /\ pipelines["w"].rate = 2000


\* ====================================================================
\* Properties of the key-press callback of main() (SpecKeys)
\* ====================================================================

\* C28: while recording is active, every key press the handler turns into a
\* trigger call also makes exactly one recordKey call with the same key and
\* the same pitch: the pressed key and pitch 0 in normal mode, the selected
\* sample key and the piano offset plus the octave offset in pitch mode; the
\* point recordKey appends holds that key and that pitch, which is what
\* tick() hands to the trigger callback when the sequence is replayed.
C28_RecordsWhatItPlays ==
  [][(op' = "keyPress" /\ recording /\ played' # <<>>) =>
       /\ Len(played') = 1
       /\ Len(taped') = 1
       /\ taped'[1][1] = played'[1][1]
       /\ taped'[1][2] = played'[1][2]
       /\ IF pitchModeActive
          THEN /\ played'[1][1] = pitchModeKey
               /\ played'[1][2] = getPitchOffset(args'[1]) + pitchOctaveOffset
          ELSE /\ played'[1][1] = args'[1]
               /\ played'[1][2] = 0
       /\ Len(sequencePoints') = Len(sequencePoints) + 1
       /\ sequencePoints'[Len(sequencePoints')].key = played'[1][1]
       /\ sequencePoints'[Len(sequencePoints')].pitch = played'[1][2]]_vars

\* while recording, "q" was selected in pitch mode, the octave was shifted up
\* and the piano key "w" was pressed: the sample of "q" was triggered 13
\* semitones up and recordKey('q', 13) appended a point
C28_Witness ==
  /\ op = "keyPress"
  /\ args = <<"w", FALSE>>
  /\ recording
  /\ pitchModeActive
  /\ played = <<(<<"q", 13, TRUE>>)>>
  /\ taped = <<(<<"q", 13>>)>>
  /\ Len(sequencePoints) = 1
  /\ sequencePoints[1].key = "q"
  /\ sequencePoints[1].pitch = 13

\* the piano keys in chromatic order
C29_PianoKeys == <<"a", "w", "s", "e", "d", "f", "t", "g", "y", "h", "u", "j", "k">>

\* the place of a piano key in the chromatic order, from 0
C29_Offset(key) == CHOOSE n \in 0..12 : C29_PianoKeys[n + 1] = key

C29_IsPiano(key) == \E n \in 0..12 : C29_PianoKeys[n + 1] = key

\* C29: in pitch mode a piano key triggers the selected sample at its offset
\* plus the octave offset, the offsets of a w s e d f t g y h u j k being
\* 0..12 in that order; "z" and "x" change the octave offset by -12 and +12
\* and trigger and record nothing; any other key that is no control key is
\* ignored and leaves pitch mode, the selected key and the octave offset as
\* they were.
C29_PitchModeKeys ==
  /\ \A n \in 0..12 : getPitchOffset(C29_PianoKeys[n + 1]) = n
  /\ \A key \in {"q", "z", "x", "b", "1", " "} : getPitchOffset(key) = NotPiano
  /\ [][(/\ op' = "keyPress"
         /\ pitchModeActive
         /\ ~args'[2]
         /\ args'[1] \notin {ShiftAlone, "1", "2"}) =>
          LET key == args'[1]
              silent == /\ played' = <<>>
                        /\ taped' = <<>>
                        /\ UNCHANGED <<pipelines, sequencePoints>>
          IN /\ UNCHANGED <<pitchModeActive, pitchModeKey>>
             /\ IF C29_IsPiano(key)
                THEN /\ Len(played') = 1
                     /\ played'[1][1] = pitchModeKey
                     /\ played'[1][2] = C29_Offset(key) + pitchOctaveOffset
                     /\ UNCHANGED pitchOctaveOffset
                     /\ pipelines[pitchModeKey].bound =>
                          /\ played'[1][3]
                          /\ pipelines'[pitchModeKey].pitch = played'[1][2]
                          /\ pipelines'[pitchModeKey].rate = RateOf(played'[1][2])
                          /\ pipelines'[pitchModeKey].isPlaying
                ELSE IF key = "z"
                THEN silent /\ pitchOctaveOffset' = pitchOctaveOffset - 12
                ELSE IF key = "x"
                THEN silent /\ pitchOctaveOffset' = pitchOctaveOffset + 12
                ELSE silent /\ UNCHANGED pitchOctaveOffset]_vars

\* "q" is selected in pitch mode an octave down, and the piano key "w" has
\* just triggered its sample 11 semitones down
C29_Witness ==
  /\ op = "keyPress"
  /\ args = <<"w", FALSE>>
  /\ pitchModeActive
  /\ pitchModeKey = "q"
  /\ pitchOctaveOffset = -12
  /\ played = <<(<<"q", -11, TRUE>>)>>
  /\ pipelines["q"].pitch = -11
  /\ pipelines["q"].isPlaying


\* ====================================================================
\* Properties of triggers that race with the bus watch (SpecVoiceConc)
\* ====================================================================

\* C31: under any interleaving of a trigger with the end-of-stream callback
\* on the same voice, a voice whose playing flag is true has its backend in
\* the PLAYING state, and a trigger that returned true leaves the voice
\* playing; the flag is never true while the backend is paused.
C31_PlayingFlagMeansPlaying ==
  /\ \A key \in Keys :
       (pipelines[key].bound /\ pipelines[key].isPlaying) =>
         pipelines[key].state = "PLAYING"
  /\ (op = "trigger" /\ result) =>
       /\ pipelines[args[1]].isPlaying
       /\ pipelines[args[1]].state = "PLAYING"


\* ====================================================================
\* Properties of recording sessions under interleavings (SpecConc, SpecApi)
\* ====================================================================

\* a recording session is open: the starting toggleRecording() has set
\* _recording, or the stopping one has not returned yet
\* the states of a thread that waits for _sequencePointLock
C32_SequencerWaits == {"tr_stop_lock", "tr_start_lock", "rk_lock", "tk_lock"}

C32_InCall(t) == pc[t] # "idle" \/ vpc[t] # "idle"

\* C32: the two locks cannot deadlock.  tick() holds _sequencePointLock for
\* as long as its trigger callback is inside playSampleWithPitch; a thread
\* that waits for _sequencePointLock holds neither lock, a thread that waits
\* for mutex_ does not hold mutex_, and whenever the key handler or the
\* sequencer thread is inside a call one of the two can take its next step.
C32_NoLockDeadlock ==
  /\ vpc["ticker"] # "idle" => sequencePointLock = "ticker" /\ pc["ticker"] = "tk_called"
  /\ \A t \in {"input", "ticker"} :
       /\ pc[t] \in C32_SequencerWaits => mutex # t /\ sequencePointLock # t
       /\ vpc[t] = "v_lock" => mutex # t
  /\ (\E t \in {"input", "ticker"} : C32_InCall(t)) => ENABLED LockSteps

\* the sequencer thread holds _sequencePointLock and waits for mutex_, which
\* the key handler holds inside playSampleWithPitch
C32_Witness ==
  /\ sequencePointLock = "ticker"
  /\ vpc["ticker"] = "v_lock"
  /\ mutex = "input"
  /\ vpc["input"] \in {"v_find", "v_start"}

C33_SessionOpen ==
  \/ recording
  \/ pc["input"] \in {"tr_stop_lock", "tr_stop"}

\* C33: while a recording session is open, tick() invokes no trigger
\* callback, even if playing is true, under every interleaving of the
\* sequencer thread with toggleRecording and recordKey on the input thread.
C33_NoCallbackWhileRecording ==
  [][(op' = "tick" /\ C33_SessionOpen) => fired' = <<>>]_vars

\* the stopping toggleRecording() has returned and no later call of it has begun
C34_Stopped ==
  /\ ~recording
  /\ pc["input"] = "idle"

\* C34: after a recording has stopped, every stored SequencePoint has
\* 0 <= time_from_start <= sequence_length, for every interleaving of
\* recordKey on one thread with toggleRecording on another.
C34_PointsWithinLength ==
  C34_Stopped =>
    \A i \in 1..Len(sequencePoints) :
      /\ 0 <= sequencePoints[i].time
      /\ sequencePoints[i].time <= sequenceLength


\* ====================================================================
\* Properties of playback sessions (Spec)
\* ====================================================================

\* a tick() that runs its body
C35_Ticks == op' = "tick" /\ playing /\ ~TickSkips

\* C35: with a clock that only advances, no SequencePoint fires more than
\* once within one loop iteration of one playback session, whatever the
\* spacing of the tick() calls: a tick in the loop iteration of the tick
\* before it never moves the cursor back and fires exactly the points between
\* the old cursor and the new one; the computed position is smaller than the
\* previous one, and the cursor goes back, only when a later loop iteration
\* has begun.
C35_AtMostOncePerLoop ==
  /\ [](firstFiresInLoop <= 1)
  /\ [][(C35_Ticks /\ lastTick # -1 /\ LoopOf(sincePlayStart) = LoopOf(lastTick)) =>
          /\ currentIndex' >= currentIndex
          /\ fired' = Callbacks(sequencePoints, currentIndex, currentIndex')]_vars
  /\ [][(/\ C35_Ticks
         /\ \/ Fmod(sincePlayStart, sequenceLength) < previousPlayPosition
            \/ currentIndex' < currentIndex) =>
          /\ lastTick # -1
          /\ LoopOf(sincePlayStart) > LoopOf(lastTick)]_vars

\* ticks more than a millisecond apart: both points fired in the first loop
\* iteration, the wrap reset the cursor, and a second tick in the later
\* iteration has just fired nothing
C35_Witness ==
  /\ op = "tick"
  /\ playing
  /\ Len(sequencePoints) = 2
  /\ maxGap >= 2
  /\ LoopOf(lastTick) >= 1
  /\ firstFires = 2
  /\ firstFiresInLoop = 1
  /\ currentIndex = 2
  /\ fired = <<>>


\* the number of points recorded at or before an offset from the start
C36_DueBy(offset) ==
  Cardinality({i \in 1..Len(sequencePoints) : sequencePoints[i].time <= offset})

\* C36: stopping playback and starting it again is a fresh start on the same
\* recording: the start is the time of the restart, the cursor is 0, the
\* points and sequence_length are unchanged, and the points that fired before
\* the stop fire again at their recorded offsets from the new start (the
\* first tick of the restarted session, in its first loop iteration, fires
\* every point recorded at or before its offset, from the first one on).
C36_RestartIsFreshStart ==
  /\ [][(op' = "togglePlaying" /\ replay' = "restarted") =>
          /\ playing'
          /\ sincePlayStart' = 0
          /\ currentIndex' = 0
          /\ previousPlayPosition' = Sentinel
          /\ sequencePoints' = sequencePoints
          /\ sequenceLength' = sequenceLength
          /\ ~recording => sequencePoints' \in SortByTime(recorded)]_vars
  /\ [][(/\ op' = "tick"
         /\ replay = "restarted"
         /\ playing
         /\ ~TickSkips
         /\ lastTick = -1
         /\ sincePlayStart < sequenceLength) =>
          /\ fired' = Callbacks(sequencePoints, 0, C36_DueBy(sincePlayStart))
          /\ currentIndex' = C36_DueBy(sincePlayStart)]_vars

\* playback of two points was stopped after both had fired and started
\* again; a tick one millisecond after the restart has fired both again
C36_Witness ==
  /\ op = "tick"
  /\ replay = "restarted"
  /\ playing
  /\ ~recording
  /\ Len(sequencePoints) = 2
  /\ sequenceLength >= 2
  /\ sincePlayStart = 1
  /\ lastTick = 1
  /\ Len(fired) = 2
  /\ currentIndex = 2


\* ====================================================================
\* More properties of the key-press callback of main() (SpecKeys)
\* ====================================================================

\* C37: only keys bound to a voice are recorded: a key press whose trigger
\* finds no voice (an unmapped key in normal mode, a pitch-mode sample key
\* with no registered voice) appends no SequencePoint, so every stored point
\* names a key with a registered voice.
C37_OnlyBoundKeysRecorded ==
  /\ [](\A i \in 1..Len(sequencePoints) : Find(sequencePoints[i].key) # "end")
  /\ [][(/\ op' = "keyPress"
         /\ played' # <<>>
         /\ Find(played'[1][1]) = "end") =>
          sequencePoints' = sequencePoints]_vars


\* ====================================================================
\* Properties of the event tap with the key-press callback (SpecTap)
\* ====================================================================

\* C38: pitch mode is entered by SHIFT+key, which selects the key and sets the
\* octave offset to 0, and stays active when SHIFT is released; it is left
\* only by a SHIFT press-and-release during which no mapped key was pressed
\* (and such a press-and-release leaves it); while it is active, SHIFT with
\* another key changes neither the selected key nor the octave offset; no key
\* press with SHIFT held triggers or records a sample.
C38_PitchModeAndShift ==
  /\ [][(op' = "keyPress" /\ args'[1] # ShiftAlone /\ shiftHeld /\ ~pitchModeActive) =>
          /\ pitchModeActive'
          /\ pitchModeKey' = args'[1]
          /\ pitchOctaveOffset' = 0]_vars
  /\ [][(pitchModeActive /\ ~pitchModeActive') =>
          (shiftHeld /\ ~shiftHeld' /\ ~keySinceShift)]_vars
  /\ [][(shiftHeld /\ ~shiftHeld' /\ ~keySinceShift) => ~pitchModeActive']_vars
  /\ [][(op' = "keyPress" /\ args'[1] # ShiftAlone /\ shiftHeld /\ pitchModeActive) =>
          UNCHANGED <<pitchModeActive, pitchModeKey, pitchOctaveOffset>>]_vars
  /\ [][(op' = "keyPress" /\ args'[1] # ShiftAlone /\ shiftHeld) =>
          /\ played' = <<>>
          /\ taped' = <<>>
          /\ UNCHANGED <<pipelines, sequencePoints, recording, playing>>]_vars

\* "q" is selected in pitch mode an octave up, SHIFT was released and pressed
\* again, and SHIFT+"a" was pressed while recording: nothing was played or
\* recorded and pitch mode is as it was
C38_Witness ==
  /\ op = "keyPress"
  /\ args = <<"a", TRUE>>
  /\ shiftHeld
  /\ recording
  /\ pitchModeActive
  /\ pitchModeKey = "q"
  /\ pitchOctaveOffset = 12
  /\ played = <<>>
  /\ taped = <<>>

====
